---- MODULE Spec2Model ----
(***************************************************************************)
(* Text screen of PC-BASIC (pcbasic/basic/display/textscreen.py): the      *)
(* cursor, the scroll area, the bottom bar and the active text page.       *)
(*                                                                         *)
(* A screen object is a record `self'; every method of TextScreen is an    *)
(* operator from the record before the call to the record after it, and an *)
(* action commits the record to the variables.  The text page (TextPage,   *)
(* not part of the files under src/) is modelled by the operators of the   *)
(* section "text page".  Characters are halfwidth (get_charwidth is 1).    *)
(*                                                                         *)
(* Scale.  Every video mode of the program has 25 text rows and 20, 40 or  *)
(* 80 columns.  The model's modes have Height rows and Widths columns; the *)
(* literals 25 and 24 of view_print_ are the mode's height and the row     *)
(* above the bottom bar, so they are modelled as mode.height and           *)
(* mode.height - 1.  RealMode is the 25 x 80 mode itself.                  *)
(***************************************************************************)
EXTENDS Integers, Sequences, FiniteSets, TLC

\* ------------------------------------------------------------------ bounds
\* text rows of the scaled modes (25 in the program)
Height == 3
\* widest scaled mode (80 in the program); the narrow one is MaxWidth - 1
MaxWidth == 3
\* calls per behaviour
MaxSteps == 3
\* pixels in a row of the pixel page
PixWidth == 2

\* characters written by the model's calls
Chars == {"X"}
\* text attributes set by set_attr: white on black, black on white
Attrs == {7, 112}
\* absent optional argument (Python None): a value no call passes as a number
None == -1

Min(a, b) == IF a < b THEN a ELSE b
Max(a, b) == IF a > b THEN a ELSE b

\* ------------------------------------------------------------------ modes
ScaledModes ==
    { [width |-> w, height |-> Height, is_text_mode |-> TRUE] :
        w \in {MaxWidth - 1, MaxWidth} }
RealMode == [width |-> 80, height |-> 25, is_text_mode |-> TRUE]
\* the graphics modes, which have a text screen of the same sizes
GraphicsModes == { [m EXCEPT !.is_text_mode = FALSE] : m \in ScaledModes }

VARIABLES
    mode,                \* TextScreen.mode: [width, height, is_text_mode]
    tandytext,           \* TextScreen._tandytext: capabilities in (pcjr, tandy)
    current_row,         \* TextScreen.current_row
    current_col,         \* TextScreen.current_col
    overflow,            \* TextScreen.overflow
    bottom_row_allowed,  \* TextScreen._bottom_row_allowed
    scroll_area,         \* ScrollArea: [top, bottom, active]
    bar_visible,         \* BottomBar.visible
    bar_contents,        \* BottomBar._contents: index -> <<char, reverse>>
    attr,                \* TextScreen._attr
    apage,               \* TextScreen._apage: row number -> [chars, attrs, length, wrap]
    called,              \* the call being returned from: <<method, arguments...>>,
                         \* <<>> once the interpreter has gone on
    raised,              \* that call raised a runtime error
    steps,               \* number of calls made
    pixelpage            \* PixelPage: [buffer, width, height, mask]

vars == <<mode, tandytext, current_row, current_col, overflow, bottom_row_allowed,
          scroll_area, bar_visible, bar_contents, attr, apage, called, raised, steps,
          pixelpage>>

\* ------------------------------------------------------------------ pixel page
\* (pcbasic/basic/display/pixels.py; the byte matrix it stores its pixels in is
\* not part of the files under src/ and is modelled by the operators bm_*)

\* rows of the pixel page
PixHeight == 2

\* bitwise and, or, exclusive or of natural numbers
RECURSIVE BitAnd(_, _)
BitAnd(a, b) ==
    IF a = 0 \/ b = 0 THEN 0
    ELSE ((a % 2) * (b % 2)) + 2 * BitAnd(a \div 2, b \div 2)

RECURSIVE BitOr(_, _)
BitOr(a, b) ==
    IF a = 0 THEN b
    ELSE IF b = 0 THEN a
    ELSE Max(a % 2, b % 2) + 2 * BitOr(a \div 2, b \div 2)

RECURSIVE BitXor(_, _)
BitXor(a, b) ==
    IF a = 0 THEN b
    ELSE IF b = 0 THEN a
    ELSE (((a % 2) + (b % 2)) % 2) + 2 * BitXor(a \div 2, b \div 2)

\* a matrix of `height' rows of `width' bytes, rows and columns counted from 0
bm_full(height, width, v) == [i \in 0..(height - 1) |-> [j \in 0..(width - 1) |-> v]]

\* the cell [y, x] exists; any other index raises IndexError
bm_in(buffer, y, x) == y \in DOMAIN buffer /\ x \in DOMAIN buffer[y]

\* buffer[y0:y1+1, x0:x1+1]
bm_slice(buffer, y0, y1, x0, x1) ==
    [i \in 0..(y1 - y0) |-> [j \in 0..(x1 - x0) |-> buffer[y0 + i][x0 + j]]]

\* buffer[y0:y1+1, x0:x1+1] = array
bm_assign(buffer, y0, y1, x0, x1, array) ==
    [y \in DOMAIN buffer |-> [x \in DOMAIN buffer[y] |->
        IF y0 <= y /\ y <= y1 /\ x0 <= x /\ x <= x1
        THEN array[y - y0][x - x0]
        ELSE buffer[y][x]]]

PixelPage_init(width, height, bitsperpixel) ==
    [buffer |-> bm_full(height, width, 0), width |-> width, height |-> height,
     mask |-> 2 ^ bitsperpixel - 1]

\* the operations table with a PRESET that leaves the array as it is
operations_mut_plain_preset(token, mask, target, array) ==
    [i \in DOMAIN target |-> [j \in DOMAIN target[i] |->
        IF token \in {"PSET", "PRESET"} THEN array[i][j]
        ELSE IF token = "AND" THEN BitAnd(target[i][j], array[i][j])
        ELSE IF token = "OR" THEN BitOr(target[i][j], array[i][j])
        ELSE BitXor(target[i][j], array[i][j])]]

\* the operations table: _x is the target area, _y the array
operations(token, mask, target, array) ==
    [i \in DOMAIN target |-> [j \in DOMAIN target[i] |->
        IF token = "PSET" THEN array[i][j]
        ELSE IF token = "PRESET" THEN BitXor(array[i][j], mask)
        ELSE IF token = "AND" THEN BitAnd(target[i][j], array[i][j])
        ELSE IF token = "OR" THEN BitOr(target[i][j], array[i][j])
        ELSE BitXor(target[i][j], array[i][j])]]

put_pixel(page, x, y, attribute) ==
    IF bm_in(page.buffer, y, x) THEN [page EXCEPT !.buffer[y][x] = attribute] ELSE page

get_pixel(page, x, y) == IF bm_in(page.buffer, y, x) THEN page.buffer[y][x] ELSE 0

fill_interval(page, x0, x1, y, attribute) ==
    [page EXCEPT !.buffer = bm_assign(@, y, y, x0, x1, bm_full(1, x1 - x0 + 1, attribute))]

\* colours is one row of bytes; cell & ~mask is cell & (255 - mask) on bytes
put_interval(page, x, y, colours, mask) ==
    LET width == Len(colours)
        old == bm_slice(page.buffer, y, y, x, x + width - 1)
        result == [i \in {0} |-> [j \in 0..(width - 1) |->
                    BitOr(BitAnd(colours[j + 1], mask), BitAnd(old[0][j], 255 - mask))]]
    IN  [page EXCEPT !.buffer = bm_assign(@, y, y, x, x + width - 1, result)]

fill_rect(page, x0, y0, x1, y1, attribute) ==
    [page EXCEPT !.buffer =
        bm_assign(@, y0, y1, x0, x1, bm_full(y1 - y0 + 1, x1 - x0 + 1, attribute))]

\* put_rect that applies OR for every token
put_rect_mut_or(page, x0, y0, x1, y1, array, operation_token) ==
    [page EXCEPT !.buffer = bm_assign(@, y0, y1, x0, x1,
        operations("OR", page.mask, bm_slice(page.buffer, y0, y1, x0, x1), array))]

put_rect(page, x0, y0, x1, y1, array, operation_token) ==
    LET result == operations(operation_token, page.mask,
                             bm_slice(page.buffer, y0, y1, x0, x1), array)
    IN  [page EXCEPT !.buffer = bm_assign(@, y0, y1, x0, x1, result)]

move_rect(page, sx0, sy0, sx1, sy1, tx0, ty0) ==
    LET clip == bm_slice(page.buffer, sy0, sy1, sx0, sx1)
        height == sy1 - sy0 + 1
        width == sx1 - sx0 + 1
        cleared == bm_assign(page.buffer, sy0, sy1, sx0, sx1, bm_full(height, width, 0))
    IN  [page EXCEPT !.buffer =
            bm_assign(cleared, ty0, ty0 + height - 1, tx0, tx0 + width - 1, clip)]

\* ------------------------------------------------------------------ text screen
\* the screen object as a record; scroll_downs observes the calls of scroll_down
\* made within the operation in progress, each as <<from_row, cursor row before,
\* cursor row after>>, index_error that the operation has ended in an
\* IndexError of the text page, depth the calls of _insert_at and _delete_at in
\* progress, nested every such call made, as <<method, row, depth>>, scrolls
\* the number of calls of scroll made, and scanned the number of cells read by
\* skip_word_right (none is a field of TextScreen)
Self ==
    [mode |-> mode, tandytext |-> tandytext, current_row |-> current_row,
     current_col |-> current_col, overflow |-> overflow,
     bottom_row_allowed |-> bottom_row_allowed, scroll_area |-> scroll_area,
     bar_visible |-> bar_visible, bar_contents |-> bar_contents, attr |-> attr,
     apage |-> apage,
     scroll_downs |-> {}, index_error |-> FALSE, depth |-> 0, nested |-> {},
     scrolls |-> 0, scanned |-> 0]

\* ------------------------------------------------------------------ text page
TextRow(a, width) ==
    [chars |-> [i \in 1..width |-> " "], attrs |-> [i \in 1..width |-> a],
     length |-> 0, wrap |-> FALSE]

TextPage(a, m) == [r \in 1..m.height |-> TextRow(a, m.width)]

InPage(pg, row, col) ==
    /\ row \in DOMAIN pg
    /\ col \in DOMAIN pg[row].chars

page_put_char_attr(pg, row, col, c, a, adjust_end) ==
    IF ~InPage(pg, row, col) THEN pg
    ELSE [pg EXCEPT ![row] =
            [@ EXCEPT !.chars[col] = c, !.attrs[col] = a,
                      !.length = IF adjust_end THEN Max(@, col) ELSE @]]

page_clear_rows(pg, start, stop, a) ==
    [r \in DOMAIN pg |->
        IF start <= r /\ r <= stop THEN TextRow(a, Len(pg[r].chars)) ELSE pg[r]]

page_scroll_up(pg, from, to, a) ==
    [r \in DOMAIN pg |->
        IF from <= r /\ r < to THEN pg[r + 1]
        ELSE IF r = to /\ from <= to THEN TextRow(a, Len(pg[r].chars))
        ELSE pg[r]]

page_scroll_down(pg, from, to, a) ==
    [r \in DOMAIN pg |->
        IF from < r /\ r <= to THEN pg[r - 1]
        ELSE IF r = from /\ from <= to
            THEN [TextRow(a, Len(pg[r].chars)) EXCEPT
                    !.wrap = (from - 1 \in DOMAIN pg) /\ pg[from - 1].wrap]
        ELSE pg[r]]

page_set_wrap(pg, row, wrap) ==
    IF row \in DOMAIN pg THEN [pg EXCEPT ![row].wrap = wrap] ELSE pg

page_set_row_length(pg, row, length) ==
    IF row \in DOMAIN pg THEN [pg EXCEPT ![row].length = length] ELSE pg

\* the code points of the characters the model writes
Ord(c) ==
    IF c = " " THEN 32
    ELSE IF c = "X" THEN 88
    ELSE IF c = "Y" THEN 89
    ELSE 96 + CHOOSE i \in 1..24 :
                <<"a", "b", "c", "d", "e", "f", "g", "h", "i", "j", "k", "l", "m",
                  "n", "o", "p", "q", "r", "s", "t", "u", "v", "w", "x">>[i] = c

\* the cell's character as a byte value
page_get_byte(pg, row, col) == Ord(pg[row].chars[col])

page_wraps(pg, row) == pg[row].wrap

page_row_length(pg, row) == pg[row].length

\* the cell's character; a column of 0 is the list index -1, the row's last cell
page_get_char(pg, row, col) ==
    pg[row].chars[IF col = 0 THEN Len(pg[row].chars) ELSE col]

page_get_attr(pg, row, col) ==
    pg[row].attrs[IF col = 0 THEN Len(pg[row].attrs) ELSE col]

\* the first row of the logical line through row: the rows above that wrap into it
RECURSIVE page_find_start_of_line(_, _)
page_find_start_of_line(pg, row) ==
    IF row > 1 /\ pg[row - 1].wrap THEN page_find_start_of_line(pg, row - 1) ELSE row

\* the last row of the logical line through row
RECURSIVE page_find_end_of_line(_, _)
page_find_end_of_line(pg, row) ==
    IF row < Len(pg) /\ pg[row].wrap THEN page_find_end_of_line(pg, row + 1) ELSE row

\* insert a halfwidth character: the cells from col on move right, the last cell
\* drops off and is returned, everything moved takes the attribute a
page_insert_char_attr(pg, row, col, c, a) ==
    LET old == pg[row]
        width == Len(old.chars)
        length == IF old.length >= col THEN Min(old.length + 1, width) ELSE col
        chars == [i \in 1..width |->
                    IF i < col THEN old.chars[i]
                    ELSE IF i = col THEN c ELSE old.chars[i - 1]]
        attrs == [i \in 1..width |->
                    IF i < col THEN old.attrs[i]
                    ELSE IF i <= length \/ i = col THEN a ELSE old.attrs[i - 1]]
    IN  [page |-> [pg EXCEPT ![row] = [chars |-> chars, attrs |-> attrs,
                                       length |-> length, wrap |-> old.wrap]],
         popped |-> old.chars[width]]

\* delete a halfwidth character: the cells up to the logical end move left and
\* the end is filled with a space (fill is <<>>; the row gets shorter) or with
\* fill = <<char, attr>> (it keeps its length); nothing happens beyond the
\* logical end
page_delete_char_attr(pg, row, col, a, fill) ==
    LET old == pg[row]
        width == Len(old.chars)
        chars == [i \in 1..width |->
                    IF i < col \/ i > old.length THEN old.chars[i]
                    ELSE IF i < old.length THEN old.chars[i + 1]
                    ELSE IF fill = <<>> THEN " " ELSE fill[1]]
        attrs == [i \in 1..width |->
                    IF i < col \/ i > old.length THEN old.attrs[i]
                    ELSE IF i < old.length \/ fill = <<>> THEN a ELSE fill[2]]
    IN  IF old.length < col THEN pg
        ELSE [pg EXCEPT ![row] =
                [chars |-> chars, attrs |-> attrs,
                 length |-> IF fill = <<>> THEN old.length - 1 ELSE old.length,
                 wrap |-> old.wrap]]

\* ------------------------------------------------------------------ scroll area
ScrollArea_set(start, stop) == [top |-> start, bottom |-> stop, active |-> TRUE]

ScrollArea_unset(height) == [ScrollArea_set(1, height - 1) EXCEPT !.active = FALSE]

\* init_mode that never preserves the viewport
ScrollArea_init_mode_mut_unset(area, m) == ScrollArea_unset(m.height)

ScrollArea_init_mode(area, m) ==
    IF area.bottom = m.height THEN ScrollArea_set(1, m.height)
    ELSE ScrollArea_unset(m.height)

\* ------------------------------------------------------------------ cursor
move_cursor(self, row, col) == [self EXCEPT !.current_row = row, !.current_col = col]

set_wrap(self, row, wrap) == [self EXCEPT !.apage = page_set_wrap(@, row, wrap)]

\* scroll that also moves a cursor on from_row itself
scroll_mut_ge(self, from_row) ==
    LET from == IF from_row = None THEN self.scroll_area.top ELSE from_row
        s1 == [self EXCEPT !.apage =
                    page_scroll_up(@, from, self.scroll_area.bottom, self.attr)]
    IN  IF s1.current_row >= from
        THEN move_cursor(s1, s1.current_row - 1, s1.current_col)
        ELSE s1

\* scroll that always starts at the viewport top
scroll_mut_from_top(self, from_row) ==
    LET s1 == [self EXCEPT !.apage = page_scroll_up(@, self.scroll_area.top,
                                        self.scroll_area.bottom, self.attr)]
    IN  IF s1.current_row > from_row
        THEN move_cursor(s1, s1.current_row - 1, s1.current_col)
        ELSE s1

scroll(self, from_row) ==
    LET from == IF from_row = None THEN self.scroll_area.top ELSE from_row
        s1 == [self EXCEPT !.apage =
                    page_scroll_up(@, from, self.scroll_area.bottom, self.attr),
                           !.scrolls = @ + 1]
    IN  IF s1.current_row > from
        THEN move_cursor(s1, s1.current_row - 1, s1.current_col)
        ELSE s1

\* scroll_down that moves only a cursor below from_row
scroll_down_mut_gt(self, from_row) ==
    LET s1 == [self EXCEPT !.apage =
                    page_scroll_down(@, from_row, self.scroll_area.bottom, self.attr)]
        s2 == IF s1.current_row > from_row
              THEN move_cursor(s1, s1.current_row + 1, s1.current_col)
              ELSE s1
    IN  [s2 EXCEPT !.scroll_downs =
            @ \cup {<<from_row, self.current_row, s2.current_row>>}]

scroll_down(self, from_row) ==
    LET s1 == [self EXCEPT !.apage =
                    page_scroll_down(@, from_row, self.scroll_area.bottom, self.attr)]
        s2 == IF s1.current_row >= from_row
              THEN move_cursor(s1, s1.current_row + 1, s1.current_col)
              ELSE s1
    IN  [s2 EXCEPT !.scroll_downs =
            @ \cup {<<from_row, self.current_row, s2.current_row>>}]

\* check_pos, the branch taken while writing on the bottom row is allowed
check_pos_bottom(self) ==
    LET c1 == Min(self.mode.width, self.current_col)
        c2 == IF c1 < 1 THEN c1 + 1 ELSE c1
    IN  move_cursor(self, self.current_row, c2)

\* check_pos, the column correction
check_pos_col(self, scroll_ok) ==
    IF self.current_col > self.mode.width
    THEN IF self.current_row < self.scroll_area.bottom \/ scroll_ok
         THEN [self EXCEPT !.current_col = @ - self.mode.width,
                           !.current_row = @ + 1]
         ELSE [self EXCEPT !.current_col = self.mode.width]
    ELSE IF self.current_col < 1
    THEN IF self.current_row > self.scroll_area.top
         THEN [self EXCEPT !.current_col = @ + self.mode.width,
                           !.current_row = @ - 1]
         ELSE [self EXCEPT !.current_col = 1]
    ELSE self

\* check_pos that scrolls whether or not scroll_ok
check_pos_row_mut_scroll(self, scroll_ok) ==
    IF self.current_row > self.scroll_area.bottom
    THEN [scroll(self, None) EXCEPT !.current_row = self.scroll_area.bottom]
    ELSE IF self.current_row < self.scroll_area.top
    THEN [self EXCEPT !.current_row = self.scroll_area.top]
    ELSE self

\* check_pos, the row correction
check_pos_row(self, scroll_ok) ==
    IF self.current_row > self.scroll_area.bottom
    THEN LET s1 == IF scroll_ok THEN scroll(self, None) ELSE self
         IN  [s1 EXCEPT !.current_row = self.scroll_area.bottom]
    ELSE IF self.current_row < self.scroll_area.top
    THEN [self EXCEPT !.current_row = self.scroll_area.top]
    ELSE self

check_pos(self, scroll_ok) ==
    IF self.bottom_row_allowed /\ self.current_row = self.mode.height
    THEN check_pos_bottom(self)
    ELSE LET s0 == [self EXCEPT !.bottom_row_allowed = FALSE]
             s1 == check_pos_col(s0, scroll_ok)
             s2 == check_pos_row(s1, scroll_ok)
         IN  move_cursor(s2, s2.current_row, s2.current_col)

\* set_pos that leaves overflow as it is
set_pos_mut_keep(self, to_row, to_col, scroll_ok) ==
    check_pos([self EXCEPT !.current_row = to_row, !.current_col = to_col], scroll_ok)

set_pos(self, to_row, to_col, scroll_ok) ==
    check_pos([self EXCEPT !.overflow = FALSE, !.current_row = to_row,
                           !.current_col = to_col], scroll_ok)

\* move_to_end, the position set on the last row `row' of the logical line
move_to_end_on(self, row, length) ==
    IF length = self.mode.width
    THEN [set_pos(self, row, length, TRUE) EXCEPT !.overflow = TRUE]
    ELSE set_pos(self, row, length + 1, TRUE)

move_to_end_row(self, row) == move_to_end_on(self, row, page_row_length(self.apage, row))

move_to_end(self) ==
    move_to_end_row(self, page_find_end_of_line(self.apage, self.current_row))

\* ------------------------------------------------------------------ writing
\* _check_wrap that wraps on the last row of the screen as on any other
check_wrap_mut_last_row(self, do_scroll_down) ==
    IF self.current_col > self.mode.width
    THEN LET s1 == IF do_scroll_down /\ self.current_row < self.scroll_area.bottom
                   THEN scroll_down(self, self.current_row + 1)
                   ELSE self
             s2 == set_wrap(s1, s1.current_row, TRUE)
         IN  move_cursor(s2, s2.current_row + 1, 1)
    ELSE self

check_wrap(self, do_scroll_down) ==
    IF self.current_col > self.mode.width
    THEN IF self.current_row < self.mode.height
         THEN LET s1 == IF do_scroll_down /\ self.current_row < self.scroll_area.bottom
                        THEN scroll_down(self, self.current_row + 1)
                        ELSE self
                  s2 == set_wrap(s1, s1.current_row, TRUE)
              IN  move_cursor(s2, s2.current_row + 1, 1)
         ELSE [self EXCEPT !.current_col = self.mode.width]
    ELSE self

\* write_char that advances past the last column at once (no deferred wrap)
write_char_mut_eager(self, char, do_scroll_down) ==
    LET s1 == IF self.overflow
              THEN [self EXCEPT !.current_col = @ + 1, !.overflow = FALSE]
              ELSE self
        s2 == check_wrap(s1, do_scroll_down)
        s3 == check_pos(s2, TRUE)
        s4 == [s3 EXCEPT !.apage = page_put_char_attr(@, s3.current_row,
                                        s3.current_col, char, s3.attr, TRUE)]
        s5 == [s4 EXCEPT !.current_col = @ + 1]
    IN  check_pos(s5, TRUE)

write_char(self, char, do_scroll_down) ==
    LET s1 == IF self.overflow
              THEN [self EXCEPT !.current_col = @ + 1, !.overflow = FALSE]
              ELSE self
        s2 == check_wrap(s1, do_scroll_down)
        s3 == check_pos(s2, TRUE)
        s4 == [s3 EXCEPT !.apage = page_put_char_attr(@, s3.current_row,
                                        s3.current_col, char, s3.attr, TRUE)]
        s5 == IF s4.current_col < s4.mode.width
              THEN [s4 EXCEPT !.current_col = @ + 1]
              ELSE [s4 EXCEPT !.overflow = TRUE]
    IN  check_pos(s5, TRUE)

\* ------------------------------------------------------------------ position
\* characters are halfwidth: TextPage.get_charwidth is 1 for every cell
get_charwidth(self, row, col) == 1

incr_pos(self) ==
    LET w == get_charwidth(self, self.current_row, self.current_col)
        step == IF w = 0 THEN 1 ELSE w
    IN  set_pos(self, self.current_row, self.current_col + step, FALSE)

decr_pos(self) ==
    LET w == get_charwidth(self, self.current_row, self.current_col - 1)
        step == IF w = 0 THEN 2 ELSE IF w = 2 THEN 3 ELSE 1
    IN  set_pos(self, self.current_row, self.current_col - step, FALSE)

\* ------------------------------------------------------------------ clearing
\* attr_save & 0x70 | 0x7
clear_attr(a) == ((a \div 16) % 8) * 16 + 7

modify_attr_on_clear(self) ==
    IF ~self.tandytext THEN [self EXCEPT !.attr = clear_attr(@)] ELSE self

clear_view(self) ==
    LET s1 == modify_attr_on_clear(self)
        s2 == [s1 EXCEPT !.apage = page_clear_rows(@, s1.scroll_area.top,
                                        s1.scroll_area.bottom, s1.attr)]
        s3 == set_pos(s2, s2.scroll_area.top, 1, TRUE)
    IN  [s3 EXCEPT !.attr = self.attr]

clear(self) ==
    LET s1 == modify_attr_on_clear(self)
        s2 == [s1 EXCEPT !.apage = page_clear_rows(@, 1, s1.mode.height, s1.attr)]
        s3 == set_pos(s2, 1, 1, TRUE)
    IN  [s3 EXCEPT !.attr = self.attr]

\* ------------------------------------------------------------------ editing
wraps(self, row) == page_wraps(self.apage, row)

row_length(self, row) == page_row_length(self.apage, row)

set_row_length(self, row, length) ==
    [self EXCEPT !.apage = page_set_row_length(@, row, length)]

\* a call of _insert_at or _delete_at for row begins, and ends
Enter(self, method, row) ==
    [self EXCEPT !.depth = @ + 1, !.nested = @ \cup {<<method, row, self.depth + 1>>}]

Leave(self) == [self EXCEPT !.depth = @ - 1]

\* _insert_at: the screen after it, and its return value
RECURSIVE insert_at(_, _, _, _, _)
insert_at_body(self, row, col, c, a) ==
    IF row_length(self, row) < self.mode.width
    THEN LET s1 == [self EXCEPT !.apage = page_insert_char_attr(@, row, col, c, a).page]
             s2 == IF wraps(s1, row) /\ row_length(s1, row) = s1.mode.width
                   THEN scroll_down(s1, row + 1)
                   ELSE s1
         IN  [self |-> s2, inserted |-> TRUE]
    ELSE LET s1 == IF ~wraps(self, row) /\ row < self.scroll_area.bottom
                   THEN set_wrap(scroll_down(self, row + 1), row, TRUE)
                   ELSE self
             hit == row >= s1.scroll_area.bottom
             start == page_find_start_of_line(s1.apage, s1.current_row)
             s2 == IF hit THEN scroll(s1, None) ELSE s1
             row2 == IF hit THEN row - 1 ELSE row
             ins == page_insert_char_attr(s2.apage, row2, col, c, a)
         IN  IF hit /\ start <= s1.scroll_area.top
             THEN [self |-> s1, inserted |-> FALSE]
             ELSE insert_at([s2 EXCEPT !.apage = ins.page], row2 + 1, 1, ins.popped, a)

insert_at_left(res) == [self |-> Leave(res.self), inserted |-> res.inserted]

insert_at(self, row, col, c, a) ==
    insert_at_left(insert_at_body(Enter(self, "_insert_at", row), row, col, c, a))

\* insert_fullchars, for a sequence of halfwidth characters
RECURSIVE insert_fullchars(_, _)
insert_fullchars(self, sequence) ==
    IF sequence = <<>> THEN self
    ELSE LET res == insert_at(self, self.current_row, self.current_col,
                              Head(sequence), self.attr)
             s1 == IF res.inserted THEN incr_pos(res.self) ELSE res.self
         IN  insert_fullchars(s1, Tail(sequence))

\* delete_fullchar that takes the character left of the cursor
delete_at_mut_left(self, row, col, remove_depleted) ==
    [self EXCEPT !.apage = page_delete_char_attr(@, row, Max(col - 1, 1), self.attr, <<>>)]

\* the text page has no row below its last: reading one raises IndexError
IndexError(self) == [self EXCEPT !.index_error = TRUE]

\* _delete_at, and its loop over the columns of case 2b (i)
RECURSIVE delete_at(_, _, _, _)
RECURSIVE delete_at_loop(_, _, _)
delete_at_body(self, row, col, remove_depleted) ==
    LET deleted == [self EXCEPT !.apage =
                        page_delete_char_attr(@, row, col, self.attr, <<>>)]
    IN  IF ~wraps(self, row)
        THEN IF col > row_length(self, row) THEN self
             ELSE IF remove_depleted /\ row_length(deleted, row) = 0
                  THEN scroll(deleted, row)
                  ELSE deleted
        ELSE IF row_length(self, row) = self.mode.width
        THEN LET wrap_char_attr ==
                    IF row_length(self, row + 1) = 0 THEN <<>>
                    ELSE <<page_get_char(self.apage, row + 1, 0),
                           page_get_attr(self.apage, row + 1, 0)>>
                 s1 == [self EXCEPT !.apage = page_delete_char_attr(@, row, col,
                                                    self.attr, wrap_char_attr)]
             IN  IF row + 1 \notin DOMAIN self.apage THEN IndexError(self)
                 ELSE delete_at(s1, row + 1, 1, TRUE)
        ELSE IF col < row_length(self, row) THEN deleted
        ELSE IF remove_depleted /\ col = row_length(self, row) THEN deleted
        ELSE IF remove_depleted /\ row_length(self, row) = 0 THEN scroll(self, row)
        ELSE delete_at_loop(self, row, col)

delete_at(self, row, col, remove_depleted) ==
    Leave(delete_at_body(Enter(self, "_delete_at", row), row, col, remove_depleted))

delete_at_loop(self, row, newcol) ==
    IF newcol > self.mode.width THEN self
    ELSE IF row + 1 \notin DOMAIN self.apage THEN IndexError(self)
    ELSE IF row_length(self, row + 1) = 0 THEN self
    ELSE LET wrap_char == page_get_char(self.apage, row + 1, 0)
             s1 == [self EXCEPT !.apage = page_put_char_attr(@, row, newcol, wrap_char,
                                                             self.attr, TRUE)]
             s2 == delete_at(s1, row + 1, 1, TRUE)
         IN  IF s2.index_error THEN s2 ELSE delete_at_loop(s2, row, newcol + 1)

delete_fullchar(self) ==
    IF get_charwidth(self, self.current_row, self.current_col) > 0
    THEN delete_at(self, self.current_row, self.current_col, FALSE)
    ELSE self

\* the blanks line_feed inserts: b' ' * n
Blanks(n) == [i \in 1..n |-> " "]

\* line_feed, first branch: the end of the row is put before the cursor, and
\* the row wraps
line_feed_connect(self) ==
    set_wrap(set_row_length(self, self.current_row, self.current_col - 1),
             self.current_row, TRUE)

\* line_feed, second branch: the rows below the cursor move down, the cursor's
\* row wraps, and the cursor goes to the start of the next row
line_feed_open(self) ==
    IF self.current_row < self.mode.height
    THEN scroll_down(self, self.current_row + 1)
    ELSE self

line_feed_next(self) ==
    set_pos(set_wrap(self, self.current_row, TRUE), self.current_row + 1, 1, TRUE)

line_feed(self) ==
    IF self.current_col < row_length(self, self.current_row)
    THEN line_feed_connect(
            set_pos(insert_fullchars(self, Blanks(self.mode.width - self.current_col + 1)),
                    self.current_row, self.current_col, FALSE))
    ELSE IF page_find_end_of_line(self.apage, self.current_row) >= self.scroll_area.bottom
         THEN IF page_find_start_of_line(self.apage, self.current_row) > self.scroll_area.top
              THEN line_feed_next(line_feed_open(scroll(self, None)))
              ELSE self
         ELSE line_feed_next(line_feed_open(self))

\* ------------------------------------------------------------------ tab
tab(self, overwrite) ==
    IF overwrite
    THEN set_pos(self, self.current_row, 9 + 8 * ((self.current_col - 1) \div 8), FALSE)
    ELSE insert_fullchars(self,
            Blanks(9 + 8 * ((self.current_col - 1) \div 8) - self.current_col))

\* ------------------------------------------------------------------ words
\* the letters and digits (tokens.ALPHANUMERIC)
ALPHANUMERIC ==
    {"a", "b", "c", "d", "e", "f", "g", "h", "i", "j", "k", "l", "m", "n", "o", "p",
     "q", "r", "s", "t", "u", "v", "w", "x", "X", "Y",
     "0", "1", "2", "3", "4", "5", "6", "7", "8", "9"}

\* one loop of skip_word_right from the cell (crow, ccol), the n-th cell read:
\* over the alphanumeric cells (alnum) or over the others; <<crow, ccol, n>>
\* where it breaks, <<n>> when nothing is found
RECURSIVE skip_word_scan(_, _, _, _, _)
skip_word_scan(self, crow, ccol, alnum, n) ==
    IF (page_get_char(self.apage, crow, ccol) \in ALPHANUMERIC) # alnum
    THEN <<crow, ccol, n>>
    ELSE IF ccol + 1 > self.mode.width
    THEN IF crow >= self.scroll_area.bottom THEN <<n>>
         ELSE skip_word_scan(self, crow + 1, 1, alnum, n + 1)
    ELSE skip_word_scan(self, crow, ccol + 1, alnum, n + 1)

skip_word_find_mut_first(self, found) == found

\* the second loop, from where the first one broke
skip_word_find(self, found) ==
    IF Len(found) = 1 THEN found
    ELSE skip_word_scan(self, found[1], found[2], FALSE, found[3] + 1)

skip_word_move(self, found) ==
    IF Len(found) = 1 THEN [self EXCEPT !.scanned = found[1]]
    ELSE set_pos([self EXCEPT !.scanned = found[3]], found[1], found[2], TRUE)

skip_word_right(self) ==
    skip_word_move(self,
        skip_word_find(self,
            skip_word_scan(self, self.current_row, self.current_col, TRUE, 1)))

\* ------------------------------------------------------------------ bottom bar
\* a call's outcome: the screen after it, and whether it raised
Ok(self) == [self |-> self, raised |-> FALSE]
Raise(self) == [self |-> self, raised |-> TRUE]

\* cells of the bar, whatever the width of the screen
BarWidth == 80

\* BottomBar.clear: the contents after it, a list indexed from 0; the reverse
\* flag 0 of a cleared cell is FALSE
BottomBar_clear == [k \in 0..(BarWidth - 1) |-> <<" ", FALSE>>]

\* the list index `index' as Python takes it: a negative one counts from the end
ListIndex(index) == IF index < 0 THEN index + BarWidth ELSE index

\* BottomBar.write from the i-th character of s on (i counts from 0): the
\* assignment to an index that is no index of the list raises IndexError, the
\* cells assigned before it keep what was written
RECURSIVE BottomBar_write_from(_, _, _, _, _)
BottomBar_write_from(self, s, col, reverse, i) ==
    IF i >= Len(s) THEN Ok(self)
    ELSE IF ListIndex(col + i) \notin DOMAIN self.bar_contents THEN Raise(self)
    ELSE BottomBar_write_from(
            [self EXCEPT !.bar_contents[ListIndex(col + i)] = <<s[i + 1], reverse>>],
            s, col, reverse, i + 1)

BottomBar_write(self, s, col, reverse) == BottomBar_write_from(self, s, col, reverse, 0)

\* b'%d' % (n,), its last character
LastDigit(n) == <<"0", "1", "2", "3", "4", "5", "6", "7", "8", "9">>[(n % 10) + 1]

\* the second write of a key of update_bar, made if the first one returned
update_bar_text(res, text, kcol) ==
    IF res.raised THEN res ELSE BottomBar_write(res.self, text, kcol + 1, TRUE)

\* update_bar from the i-th description on (i counts from 0)
RECURSIVE update_bar_from(_, _, _)
update_bar_from(res, descriptions, i) ==
    IF res.raised \/ i >= Len(descriptions) THEN res
    ELSE update_bar_from(
            update_bar_text(
                BottomBar_write(res.self, <<LastDigit(i + 1)>>, 1 + 8 * i, FALSE),
                descriptions[i + 1], 1 + 8 * i),
            descriptions, i + 1)

update_bar(self, descriptions) ==
    update_bar_from(Ok([self EXCEPT !.bar_contents = BottomBar_clear]), descriptions, 0)

\* the attribute of the highlighted cells of the bar
reverse_attr(self) ==
    IF ~self.mode.is_text_mode THEN self.attr
    ELSE IF (self.attr \div 16) % 8 = 0 THEN 112
    ELSE 7

\* the key row with the complete 8-character cells of the bar that fit
bar_row(self, row_of_page) ==
    LET shown == (self.mode.width \div 8) * 8
    IN  [row_of_page EXCEPT
            !.chars = [i \in DOMAIN @ |->
                        IF i <= shown THEN self.bar_contents[i - 1][1] ELSE @[i]],
            !.attrs = [i \in DOMAIN @ |->
                        IF i > shown THEN @[i]
                        ELSE IF self.bar_contents[i - 1][2] THEN reverse_attr(self)
                        ELSE self.attr]]

redraw_bar_cleared(self, key_row, cleared) ==
    IF self.bar_visible
    THEN [self EXCEPT !.apage = page_set_row_length(
                                    [cleared EXCEPT ![key_row] = bar_row(self, @)],
                                    key_row, self.mode.width)]
    ELSE [self EXCEPT !.apage = cleared]

redraw_bar(self) ==
    redraw_bar_cleared(self, self.mode.height,
        page_clear_rows(self.apage, self.mode.height, self.mode.height, self.attr))

\* show_bar that does not look at the viewport
show_bar_mut_no_check(self, on) ==
    LET s1 == [self EXCEPT !.bar_visible = on]
    IN  Ok(IF on # self.bar_visible THEN redraw_bar(s1) ELSE s1)

show_bar(self, on) ==
    IF on /\ self.scroll_area.bottom = self.mode.height THEN Raise(self)
    ELSE LET s1 == [self EXCEPT !.bar_visible = on]
         IN  Ok(IF on # self.bar_visible THEN redraw_bar(s1) ELSE s1)

\* ------------------------------------------------------------------ mode change
init_mode(self, m, a) ==
    LET s1 == [self EXCEPT !.mode = m, !.attr = a, !.apage = TextPage(a, m)]
        s2 == redraw_bar(s1)
        s3 == [s2 EXCEPT !.scroll_area = ScrollArea_init_mode(@, m)]
    IN  set_pos(s3, s3.scroll_area.top, 1, TRUE)

\* ------------------------------------------------------------------ callbacks
OutOfRange(lo, hi, v) == v # None /\ (v < lo \/ v > hi)

\* LOCATE, up to the cursor move (the checks of the position, then set_pos)
locate_pos_raises(self, row, col) ==
    \/ row = self.mode.height /\ self.bar_visible
    \/ IF self.scroll_area.active
       THEN OutOfRange(self.scroll_area.top, self.scroll_area.bottom, row)
       ELSE OutOfRange(1, self.mode.height, row)
    \/ OutOfRange(1, self.mode.width, col)

\* LOCATE, the checks of cursor visibility and shape made after the move
locate_shape_raises(self, cursor, start, stop) ==
    \/ OutOfRange(0, IF self.tandytext THEN 255 ELSE 1, cursor)
    \/ start = None /\ stop # None
    \/ start # None /\ (OutOfRange(0, 31, start)
                         \/ OutOfRange(0, 31, IF stop = None THEN start ELSE stop))

\* LOCATE that allows the bottom row before it checks its arguments
locate_mut_flag_first(self, row_arg, col_arg, cursor, start, stop) ==
    LET row == IF row_arg = None THEN self.current_row ELSE row_arg
        col == IF col_arg = None THEN self.current_col ELSE col_arg
        s0 == IF row = self.mode.height
              THEN [self EXCEPT !.bottom_row_allowed = TRUE] ELSE self
    IN  IF locate_pos_raises(self, row, col) THEN Raise(s0)
        ELSE LET s2 == set_pos(s0, row, col, FALSE)
             IN  IF locate_shape_raises(self, cursor, start, stop)
                 THEN Raise(s2) ELSE Ok(s2)

\* LOCATE that does not allow the bottom row
locate_mut_no_flag(self, row_arg, col_arg, cursor, start, stop) ==
    LET row == IF row_arg = None THEN self.current_row ELSE row_arg
        col == IF col_arg = None THEN self.current_col ELSE col_arg
    IN  IF locate_pos_raises(self, row, col) THEN Raise(self)
        ELSE LET s2 == set_pos(self, row, col, FALSE)
             IN  IF locate_shape_raises(self, cursor, start, stop)
                 THEN Raise(s2) ELSE Ok(s2)

locate_(self, row_arg, col_arg, cursor, start, stop) ==
    LET row == IF row_arg = None THEN self.current_row ELSE row_arg
        col == IF col_arg = None THEN self.current_col ELSE col_arg
    IN  IF locate_pos_raises(self, row, col) THEN Raise(self)
        ELSE LET s1 == IF row = self.mode.height
                       THEN [self EXCEPT !.bottom_row_allowed = TRUE] ELSE self
                 s2 == set_pos(s1, row, col, FALSE)
             IN  IF locate_shape_raises(self, cursor, start, stop)
                 THEN Raise(s2) ELSE Ok(s2)

\* CSRLIN that reports the row the cursor is drawn on
csrlin_mut_plain(self) == self.current_row

\* CSRLIN
csrlin_(self) ==
    IF self.overflow /\ self.current_col = self.mode.width
            /\ self.current_row < self.scroll_area.bottom
    THEN self.current_row + 1
    ELSE self.current_row

\* POS
pos_(self) ==
    IF self.current_col = self.mode.width /\ self.overflow THEN 1 ELSE self.current_col

\* SCREEN(row, col, want_attr) that does not look at the viewport
screen_fn_raises_mut_no_view(self, row, col, want_attr) ==
    \/ OutOfRange(0, 255, want_attr)
    \/ OutOfRange(0, self.mode.height, row)
    \/ OutOfRange(0, self.mode.width, col)
    \/ row = 0 /\ col = 0

\* SCREEN(row, col, want_attr): the checks of the arguments
screen_fn_raises(self, row, col, want_attr) ==
    \/ OutOfRange(0, 255, want_attr)
    \/ OutOfRange(0, self.mode.height, row)
    \/ OutOfRange(0, self.mode.width, col)
    \/ row = 0 /\ col = 0
    \/ /\ self.scroll_area.active
       /\ OutOfRange(self.scroll_area.top, self.scroll_area.bottom,
                     IF row = 0 THEN 1 ELSE row)

\* SCREEN(row, col, want_attr): the value returned when no check raises
screen_fn_(self, row_arg, col_arg, want_attr) ==
    LET row == IF row_arg = 0 THEN 1 ELSE row_arg
        col == IF col_arg = 0 THEN 1 ELSE col_arg
    IN  IF want_attr # None /\ want_attr # 0
        THEN IF ~self.mode.is_text_mode THEN 0
             ELSE page_get_attr(self.apage, row, col)
        ELSE page_get_byte(self.apage, row, col)

\* max_line that is the mode's height on every machine
max_line_mut_always_tandy(self) == self.mode.height

\* the last row VIEW PRINT accepts: the literals 25 and 24 of the 25-row modes
max_line(self) ==
    IF self.tandytext /\ ~self.bar_visible THEN self.mode.height
    ELSE self.mode.height - 1

\* VIEW PRINT that leaves the cursor where it is
view_print_mut_no_move(self, start, stop) ==
    IF start = None /\ stop = None
    THEN Ok([self EXCEPT !.scroll_area = ScrollArea_unset(self.mode.height)])
    ELSE IF OutOfRange(1, max_line(self), start) \/ OutOfRange(1, max_line(self), stop)
    THEN Raise(self)
    ELSE IF stop < start THEN Raise(self)
    ELSE Ok([self EXCEPT !.scroll_area = ScrollArea_set(start, stop),
                         !.overflow = FALSE])

\* VIEW PRINT that does not compare stop with start
view_print_mut_no_order(self, start, stop) ==
    IF start = None /\ stop = None
    THEN Ok([self EXCEPT !.scroll_area = ScrollArea_unset(self.mode.height)])
    ELSE IF OutOfRange(1, max_line(self), start) \/ OutOfRange(1, max_line(self), stop)
    THEN Raise(self)
    ELSE LET s1 == [self EXCEPT !.scroll_area = ScrollArea_set(start, stop),
                                !.overflow = FALSE]
         IN  Ok(move_cursor(s1, start, 1))

view_print_(self, start, stop) ==
    IF start = None /\ stop = None
    THEN Ok([self EXCEPT !.scroll_area = ScrollArea_unset(self.mode.height)])
    ELSE IF OutOfRange(1, max_line(self), start) \/ OutOfRange(1, max_line(self), stop)
    THEN Raise(self)
    ELSE IF stop < start THEN Raise(self)
    ELSE LET s1 == [self EXCEPT !.scroll_area = ScrollArea_set(start, stop),
                                !.overflow = FALSE]
         IN  Ok(move_cursor(s1, start, 1))

\* ------------------------------------------------------------------ actions
Commit(self) ==
    /\ mode' = self.mode
    /\ tandytext' = self.tandytext
    /\ current_row' = self.current_row
    /\ current_col' = self.current_col
    /\ overflow' = self.overflow
    /\ bottom_row_allowed' = self.bottom_row_allowed
    /\ scroll_area' = self.scroll_area
    /\ bar_visible' = self.bar_visible
    /\ bar_contents' = self.bar_contents
    /\ attr' = self.attr
    /\ apage' = self.apage

\* the call `call' = <<method, arguments...>> with the outcome res = [self, raised]
Call(call, res) ==
    /\ called = <<>>
    /\ steps < MaxSteps
    /\ Commit(res.self)
    /\ called' = call
    /\ raised' = res.raised
    /\ steps' = steps + 1
    /\ UNCHANGED pixelpage

\* a call that cannot raise
Return(call, self) == Call(call, Ok(self))

\* arguments of the calls: every row and one beyond the screen on each side, the
\* first and last column and one beyond on each side (the columns between are
\* reached by writing and by incr_pos)
RowArgs == 0..(mode.height + 1)
PosRows == 1..(mode.height + 1)
ColArgs == {0, 1, mode.width, mode.width + 1}
ViewRows == scroll_area.top..scroll_area.bottom
\* LOCATE's cursor, start, stop: valid, and one of each kind out of range
ShapeArgs == {<<1, 0, 31>>, <<256, None, None>>, <<None, 0, 32>>, <<None, None, 0>>}

InitMode ==
    \E m \in ScaledModes, a \in Attrs : Return(<<"init_mode">>, init_mode(Self, m, a))

SetAttr == \E a \in Attrs : Return(<<"set_attr">>, [Self EXCEPT !.attr = a])

WriteChar ==
    \E c \in Chars, d \in BOOLEAN :
        LET s == write_char(Self, c, d)
        IN  Return(<<"write_char", c, d, s.scroll_downs, s.scrolls>>, s)

SetPos ==
    \E r \in PosRows, c \in ColArgs, ok \in BOOLEAN :
        Return(<<"set_pos">>, set_pos(Self, r, c, ok))

\* check_pos as set_pos calls it: for the position (r, c) just assigned
CheckPos ==
    \E r \in PosRows, c \in ColArgs, ok \in BOOLEAN :
        LET s == set_pos(Self, r, c, ok)
        IN  Return(<<"check_pos", r, c, ok, s.scrolls>>, s)

IncrPos == Return(<<"incr_pos">>, incr_pos(Self))

MoveToEnd == Return(<<"move_to_end">>, move_to_end(Self))

\* the TAB key in overwrite mode (in insert mode it is insert_fullchars)
Tab ==
    LET s == tab(Self, TRUE)
    IN  Return(<<"tab", TRUE, s.scrolls>>, s)

\* texts for the bar: a key's digit, a description of two characters, one of
\* six (the longest that fits the last key), one of seven
BarTexts ==
    {<<"1">>, <<"a", "b">>, <<"a", "b", "c", "d", "e", "f">>,
     <<"a", "b", "c", "d", "e", "f", "g">>}
\* columns for the bar: the first and the last, those beside them, and the
\* first and last index counted from the end
BarCols == {-BarWidth - 1, -BarWidth, -1, 0, 1, BarWidth - 2, BarWidth - 1, BarWidth}
\* descriptions of two keys, of the ten function keys, and of eleven
Descriptions == {[i \in 1..n |-> text] : n \in {2, 10, 11}, text \in BarTexts \ {<<"1">>}}

BarClear == Return(<<"clear">>, [Self EXCEPT !.bar_contents = BottomBar_clear])

BarWrite ==
    \E s \in BarTexts, col \in BarCols, reverse \in BOOLEAN :
        Call(<<"write", s, col, reverse>>, BottomBar_write(Self, s, col, reverse))

UpdateBar ==
    \E descriptions \in Descriptions :
        Call(<<"update_bar", descriptions>>, update_bar(Self, descriptions))

SkipWordRight ==
    LET s == skip_word_right(Self)
    IN  Return(<<"skip_word_right", s.scanned>>, s)

DecrPos == Return(<<"decr_pos">>, decr_pos(Self))

Scroll == \E r \in ViewRows \cup {None} : Return(<<"scroll", r>>, scroll(Self, r))

ScrollDown == \E r \in ViewRows : Return(<<"scroll_down", r>>, scroll_down(Self, r))

Clear == Return(<<"clear">>, clear(Self))

ClearView == Return(<<"clear_view">>, clear_view(Self))

ShowBar == \E on \in BOOLEAN : Call(<<"show_bar", on>>, show_bar(Self, on))

\* LOCATE row, col
Locate ==
    \E r \in RowArgs \cup {None}, c \in ColArgs \cup {None} :
        Call(<<"locate_", r, c>>, locate_(Self, r, c, None, None, None))

\* LOCATE row, , cursor, start, stop
LocateShape ==
    \E r \in {None, 1, mode.height}, sh \in ShapeArgs :
        Call(<<"locate_", r, None>>, locate_(Self, r, None, sh[1], sh[2], sh[3]))

ViewPrint ==
    \/ Call(<<"view_print_", None, None>>, view_print_(Self, None, None))
    \/ \E st \in RowArgs, sp \in RowArgs :
            Call(<<"view_print_", st, sp>>, view_print_(Self, st, sp))

\* the character typed in insert mode
InsertChars == {"Y"}

InsertFullchars ==
    \E c \in InsertChars :
        LET s == insert_fullchars(Self, <<c>>)
        IN  Return(<<"insert_fullchars", c, s.scroll_downs, s.nested>>, s)

DeleteFullchar ==
    LET s == delete_fullchar(Self)
    IN  Call(<<"delete_fullchar", s.nested>>, [self |-> s, raised |-> s.index_error])

LineFeed ==
    LET s == line_feed(Self)
    IN  Return(<<"line_feed", s.scroll_downs>>, s)

Csrlin == Return(<<"csrlin_", csrlin_(Self)>>, Self)

Pos == Return(<<"pos_", pos_(Self)>>, Self)

\* SCREEN's want_attr: omitted, 0, 1 and one beyond a byte
WantAttrArgs == {None, 0, 1, 256}

ScreenFn ==
    \E r \in RowArgs, c \in {0, 1, mode.width, mode.width + 1}, a \in WantAttrArgs :
        IF screen_fn_raises(Self, r, c, a)
        THEN Call(<<"screen_fn_", r, c, a>>, Raise(Self))
        ELSE Call(<<"screen_fn_", r, c, a, screen_fn_(Self, r, c, a)>>, Ok(Self))

\* the variables hold the screen `self'
Is(self) ==
    /\ mode = self.mode
    /\ tandytext = self.tandytext
    /\ current_row = self.current_row
    /\ current_col = self.current_col
    /\ overflow = self.overflow
    /\ bottom_row_allowed = self.bottom_row_allowed
    /\ scroll_area = self.scroll_area
    /\ bar_visible = self.bar_visible
    /\ bar_contents = self.bar_contents
    /\ attr = self.attr
    /\ apage = self.apage

\* the screen after TextScreen.__init__
TextScreen_init(m, capabilities_tandy) ==
    [mode |-> m, tandytext |-> capabilities_tandy, current_row |-> 1,
     current_col |-> 1, overflow |-> FALSE, bottom_row_allowed |-> FALSE,
     scroll_area |-> ScrollArea_unset(m.height), bar_visible |-> FALSE,
     bar_contents |-> BottomBar_clear, attr |-> 0, apage |-> TextPage(0, m), scroll_downs |-> {},
     index_error |-> FALSE, depth |-> 0, nested |-> {},
     scrolls |-> 0, scanned |-> 0]

\* the screen of a session that starts in mode m: __init__, then init_mode with
\* the default attribute 7
Started(m, capabilities_tandy) == init_mode(TextScreen_init(m, capabilities_tandy), m, 7)

\* the pixel page of a session that draws nothing
BlankPixels == PixelPage_init(PixWidth, PixHeight, 1)

Idle ==
    /\ called = <<>>
    /\ raised = FALSE
    /\ steps = 0
    /\ pixelpage = BlankPixels

Init ==
    /\ \E m \in ScaledModes, t \in BOOLEAN : Is(Started(m, t))
    /\ Idle

\* a session whose first statement was VIEW PRINT start, stop
InitViewPrint ==
    /\ \E m \in ScaledModes, t \in BOOLEAN, st \in 1..Height, sp \in 1..Height :
            LET res == view_print_(Started(m, t), st, sp)
            IN  ~res.raised /\ Is(res.self)
    /\ Idle

\* the interpreter goes on to its next statement (after an error: by its handler)
Resume ==
    /\ called # <<>>
    /\ called' = <<>>
    /\ raised' = FALSE
    /\ UNCHANGED <<mode, tandytext, current_row, current_col, overflow,
                   bottom_row_allowed, scroll_area, bar_visible, bar_contents, attr,
                   apage, steps, pixelpage>>

Next ==
    \/ Resume
    \/ InitMode
    \/ SetAttr
    \/ WriteChar
    \/ SetPos
    \/ IncrPos
    \/ DecrPos
    \/ Scroll
    \/ ScrollDown
    \/ Clear
    \/ ClearView
    \/ ShowBar
    \/ Locate
    \/ LocateShape
    \/ ViewPrint

Spec == Init /\ [][Next]_vars

\* the statements of a BASIC program that reach the text screen: PRINT, LOCATE,
\* VIEW PRINT, KEY ON/OFF, CLS, COLOR, SCREEN and WIDTH
NextStatements ==
    \/ Resume
    \/ InitMode
    \/ SetAttr
    \/ WriteChar
    \/ Clear
    \/ ClearView
    \/ ShowBar
    \/ Locate
    \/ LocateShape
    \/ ViewPrint

SpecStatements == Init /\ [][NextStatements]_vars

SpecViewPrint == InitViewPrint /\ [][Next]_vars

\* the 25 x 80 screen with the key bar on row 25, every row of the viewport
\* marked by a letter in its first column, and the cursor in one of the last two
\* columns of a viewport row
RowMark(r) == <<"a", "b", "c", "d", "e", "f", "g", "h", "i", "j", "k", "l", "m",
                "n", "o", "p", "q", "r", "s", "t", "u", "v", "w", "x">>[r]

MarkedScreen(t) ==
    LET s1 == show_bar(Started(RealMode, t), TRUE).self
    IN  [s1 EXCEPT !.apage =
            [r \in DOMAIN s1.apage |->
                IF r \in s1.scroll_area.top..s1.scroll_area.bottom
                THEN page_put_char_attr(s1.apage, r, 1, RowMark(r), s1.attr, TRUE)[r]
                ELSE s1.apage[r]]]

InitReal ==
    /\ \E t \in BOOLEAN, r \in 1..(RealMode.height - 1),
          c \in {RealMode.width - 1, RealMode.width}, o \in BOOLEAN :
            /\ o => c = RealMode.width
            /\ Is([MarkedScreen(t) EXCEPT !.current_row = r, !.current_col = c,
                                          !.overflow = o])
    /\ Idle

NextReal ==
    \/ Resume
    \/ WriteChar

SpecReal == InitReal /\ [][NextReal]_vars

\* a screen in the middle of editing: text on the cursor's row and on the row
\* below it, either of them ending in a line feed or wrapping into the next, the
\* row above possibly full and wrapping into the cursor's row; the cursor is in
\* the viewport, or on the last row after a LOCATE to it
CellMark(r, c) == RowMark((r - 1) * MaxWidth + c)

TextOn(row_of_page, r, length, wrap) ==
    [row_of_page EXCEPT !.chars = [i \in DOMAIN @ |->
                                    IF i <= length THEN CellMark(r, i) ELSE @[i]],
                        !.length = length, !.wrap = wrap]

EditViewports(m) ==
    {ScrollArea_unset(m.height)}
        \cup {ScrollArea_set(st, sp) : st \in 1..2, sp \in (m.height - 1)..m.height}

EditScreen(m, area, r, c, l0, l1, w1, l2, w2) ==
    LET s0 == Started(m, area.bottom = m.height)
        pg == [k \in DOMAIN s0.apage |->
                IF k = r - 1 /\ l0 THEN TextOn(s0.apage[k], k, m.width, TRUE)
                ELSE IF k = r THEN TextOn(s0.apage[k], k, l1, w1)
                ELSE IF k = r + 1 THEN TextOn(s0.apage[k], k, l2, w2)
                ELSE s0.apage[k]]
    IN  [s0 EXCEPT !.scroll_area = area, !.current_row = r, !.current_col = c,
                   !.bottom_row_allowed = r > area.bottom, !.apage = pg]

\* the screens of the modes `modes': with every length and wrap of the cursor's
\* row and its neighbours (rich), or with the cursor's row empty or full only
EditInit(modes, rich) ==
    /\ \E m \in modes, l0 \in {FALSE, rich}, w1 \in {FALSE, rich}, w2 \in {FALSE, rich} :
       \E area \in EditViewports(m), c \in 1..m.width,
          l1 \in IF rich THEN 0..m.width ELSE {0, m.width},
          l2 \in IF rich THEN 0..m.width ELSE {0} :
       \E r \in (area.top..area.bottom) \cup {m.height}, o \in BOOLEAN :
            /\ o => (c = m.width /\ l1 = m.width)
            \* the last row is wrap-connected only as the bottom of the viewport
            /\ (w1 /\ r = m.height) => area.bottom = m.height
            /\ (w2 /\ r + 1 = m.height) => area.bottom = m.height
            /\ Is([EditScreen(m, area, r, c, l0, l1, w1, l2, w2) EXCEPT !.overflow = o])
    /\ called = <<>>
    /\ raised = FALSE
    /\ steps = MaxSteps - 1
    /\ pixelpage = BlankPixels

InitEdit == EditInit(ScaledModes, TRUE)

\* the next key of the editor, or character of the program's output, on such a
\* screen
NextEdit ==
    \/ Resume
    \/ WriteChar
    \/ Scroll
    \/ ScrollDown
    \/ InsertFullchars
    \/ DeleteFullchar
    \/ LineFeed

SpecEdit == InitEdit /\ [][NextEdit]_vars

\* the functions CSRLIN, POS and SCREEN evaluated on such a screen, in a text
\* mode or a graphics mode
InitFunctions == EditInit(ScaledModes \cup GraphicsModes, FALSE)

NextFunctions ==
    \/ Resume
    \/ Csrlin
    \/ Pos
    \/ ScreenFn

SpecFunctions == InitFunctions /\ [][NextFunctions]_vars

\* check_pos called on such a screen
InitCheckPos == EditInit(ScaledModes, FALSE)

NextCheckPos ==
    \/ Resume
    \/ CheckPos

SpecCheckPos == InitCheckPos /\ [][NextCheckPos]_vars

\* rows of text for the word keys: blank, one word, a word's first letter, and
\* a word after a hyphen
WordRow(row_of_page, pattern) ==
    LET width == Len(row_of_page.chars)
    IN  [row_of_page EXCEPT
            !.chars = [i \in 1..width |->
                        CASE pattern = 1 -> " "
                          [] pattern = 2 -> "a"
                          [] pattern = 3 -> IF i = 1 THEN "a" ELSE " "
                          [] pattern = 4 -> IF i = 1 THEN "-" ELSE "a"],
            !.length = CASE pattern = 1 -> 0
                         [] pattern = 2 -> width
                         [] pattern = 3 -> 1
                         [] pattern = 4 -> width]

\* a screen of such rows, the cursor in the viewport or on the last row after a
\* LOCATE to it
WordScreen(m, area, r, c, o, patterns) ==
    LET s0 == Started(m, area.bottom = m.height)
    IN  [s0 EXCEPT !.scroll_area = area, !.current_row = r, !.current_col = c,
                   !.overflow = o, !.bottom_row_allowed = r > area.bottom,
                   !.apage = [k \in DOMAIN @ |-> WordRow(@[k], patterns[k])]]

InitWords ==
    /\ \E m \in ScaledModes, o \in BOOLEAN, patterns \in [1..Height -> 1..4] :
       \E area \in EditViewports(m), c \in 1..m.width :
       \E r \in (area.top..area.bottom) \cup {m.height} :
            /\ o => (c = m.width /\ patterns[r] \in {2, 4})
            /\ Is(WordScreen(m, area, r, c, o, patterns))
    /\ called = <<>>
    /\ raised = FALSE
    /\ steps = MaxSteps - 1
    /\ pixelpage = BlankPixels

NextWords ==
    \/ Resume
    \/ SkipWordRight

SpecWords == InitWords /\ [][NextWords]_vars

\* the operations that set the cursor's column, from the start of a session
NextCursor ==
    \/ Resume
    \/ InitMode
    \/ WriteChar
    \/ SetPos
    \/ IncrPos
    \/ DecrPos
    \/ MoveToEnd
    \/ Clear
    \/ ClearView
    \/ Locate
    \/ ViewPrint
    \/ InsertFullchars
    \/ DeleteFullchar
    \/ LineFeed
    \/ SkipWordRight

SpecCursor == Init /\ [][NextCursor]_vars

\* the text modes of 20, 40 and 80 columns
TabModes == { [RealMode EXCEPT !.width = w] : w \in {20, 40, 80} }

\* an empty screen of such a mode, with the default viewport or the whole
\* screen as viewport (tandy), the cursor anywhere on the first row, the two
\* last rows of the viewport or the last row of the screen
InitTab ==
    /\ \E m \in TabModes, t \in BOOLEAN, o \in BOOLEAN :
       \E c \in 1..m.width :
       \E area \in {ScrollArea_unset(m.height)}
                    \cup {ScrollArea_set(1, m.height) : x \in {t} \ {FALSE}} :
       \E r \in {1, area.bottom - 1, area.bottom, m.height} :
            /\ o => c = m.width
            /\ Is([Started(m, t) EXCEPT !.scroll_area = area, !.current_row = r,
                                        !.current_col = c, !.overflow = o,
                                        !.bottom_row_allowed = r > area.bottom])
    /\ called = <<>>
    /\ raised = FALSE
    /\ steps = MaxSteps - 1
    /\ pixelpage = BlankPixels

NextTab ==
    \/ Resume
    \/ Tab

SpecTab == InitTab /\ [][NextTab]_vars

\* the bar of a started session, with two calls to come
InitBar ==
    /\ \E m \in ScaledModes : Is(Started(m, FALSE))
    /\ called = <<>>
    /\ raised = FALSE
    /\ steps = MaxSteps - 2
    /\ pixelpage = BlankPixels

NextBar ==
    \/ Resume
    \/ BarClear
    \/ BarWrite
    \/ UpdateBar

SpecBar == InitBar /\ [][NextBar]_vars

\* ------------------------------------------------------------------ drawing
\* a call of a PixelPage method that leaves the page `page'
PixelCall(call, page) ==
    /\ called = <<>>
    /\ steps < MaxSteps
    /\ pixelpage' = page
    /\ called' = call
    /\ raised' = FALSE
    /\ steps' = steps + 1
    /\ UNCHANGED <<mode, tandytext, current_row, current_col, overflow,
                   bottom_row_allowed, scroll_area, bar_visible, bar_contents, attr,
                   apage>>

\* attributes passed by the calls: within the mask, and the first beyond it
PixelValues == {0, 1, pixelpage.mask, pixelpage.mask + 1}

\* coordinates: every pixel, and one beyond the page on each side
XArgs == (-1)..pixelpage.width
YArgs == (-1)..pixelpage.height

\* the rectangles <<x0, y0, x1, y1>> inside the page
Rects ==
    {r \in (0..(pixelpage.width - 1)) \X (0..(pixelpage.height - 1))
            \X (0..(pixelpage.width - 1)) \X (0..(pixelpage.height - 1)) :
        r[1] <= r[3] /\ r[2] <= r[4]}

\* a sprite whose attributes differ from pixel to pixel
Gradient(height, width) ==
    [i \in 0..(height - 1) |-> [j \in 0..(width - 1) |-> (i + j + 1) % (pixelpage.mask + 1)]]

\* the arrays passed to put_rect for a rectangle: one attribute, or the gradient
Arrays(r) ==
    {bm_full(r[4] - r[2] + 1, r[3] - r[1] + 1, v) : v \in PixelValues}
        \cup {Gradient(r[4] - r[2] + 1, r[3] - r[1] + 1)}

Tokens == {"PSET", "PRESET", "AND", "OR", "XOR"}

PutPixel ==
    \E x \in XArgs, y \in YArgs, v \in PixelValues :
        PixelCall(<<"put_pixel", x, y, v>>, put_pixel(pixelpage, x, y, v))

GetPixel ==
    \E x \in XArgs, y \in YArgs :
        PixelCall(<<"get_pixel", x, y, get_pixel(pixelpage, x, y)>>, pixelpage)

FillInterval ==
    \E r \in Rects, v \in PixelValues :
        /\ r[2] = r[4]
        /\ PixelCall(<<"fill_interval", r[1], r[3], r[2], v>>,
                     fill_interval(pixelpage, r[1], r[3], r[2], v))

\* put_interval with its default mask 0xff, and with the mask of one bit
PutInterval ==
    \E r \in Rects, v \in PixelValues, mask \in {255, 1} :
        /\ r[2] = r[4]
        /\ LET colours == [j \in 1..(r[3] - r[1] + 1) |-> v]
           IN  PixelCall(<<"put_interval", r[1], r[2], colours, mask>>,
                         put_interval(pixelpage, r[1], r[2], colours, mask))

FillRect ==
    \E r \in Rects, v \in PixelValues :
        PixelCall(<<"fill_rect", r, v>>, fill_rect(pixelpage, r[1], r[2], r[3], r[4], v))

PutRect ==
    \E r \in Rects, tk \in Tokens :
        \E array \in Arrays(r) :
            PixelCall(<<"put_rect", r, array, tk>>,
                      put_rect(pixelpage, r[1], r[2], r[3], r[4], array, tk))

\* move_rect to a target inside the page
MoveRect ==
    \E r \in Rects, t \in Rects :
        /\ t[3] - t[1] = r[3] - r[1]
        /\ t[4] - t[2] = r[4] - r[2]
        /\ PixelCall(<<"move_rect", r, t[1], t[2]>>,
                     move_rect(pixelpage, r[1], r[2], r[3], r[4], t[1], t[2]))

\* the pages drawn on, of one and of two bits per pixel: in one colour, or
\* with colours that differ from pixel to pixel
PixelPages ==
    UNION {
        {[PixelPage_init(PixWidth, PixHeight, bpp) EXCEPT
            !.buffer = bm_full(PixHeight, PixWidth, v)] : v \in 0..(2 ^ bpp - 1)}
        \cup {[PixelPage_init(PixWidth, PixHeight, bpp) EXCEPT !.buffer =
                [i \in 0..(PixHeight - 1) |->
                    [j \in 0..(PixWidth - 1) |-> (i + j + 1) % (2 ^ bpp)]]]}
        : bpp \in {1, 2}}

InitPixels ==
    /\ \E m \in ScaledModes : m.width = MaxWidth /\ Is(Started(m, FALSE))
    /\ called = <<>>
    /\ raised = FALSE
    /\ steps = MaxSteps - 1
    /\ pixelpage \in PixelPages

NextPixels ==
    \/ Resume
    \/ PutPixel
    \/ GetPixel
    \/ FillInterval
    \/ PutInterval
    \/ FillRect
    \/ PutRect
    \/ MoveRect

SpecPixels == InitPixels /\ [][NextPixels]_vars

\* ------------------------------------------------------------------ claims
\* the call just returned from is `method'
Returned(method) == called # <<>> /\ called[1] = method

\* an optional argument, or its default
OrElse(arg, default) == IF arg = None THEN default ELSE arg

\* the viewport rows
Viewport == scroll_area.top..scroll_area.bottom

\* C1: after every operation the cursor column is in [1, mode.width] and the
\* cursor row is in [scroll_area.top, scroll_area.bottom], or equals mode.height
\* while bottom_row_allowed is set.
C1_CursorInViewport ==
    /\ current_col \in 1..mode.width
    /\ \/ current_row \in Viewport
       \/ bottom_row_allowed /\ current_row = mode.height

\* C2: a write_char that stores its character in column mode.width of a viewport
\* row above the viewport bottom leaves overflow set, the cursor in column
\* mode.width and the row unchanged; a write_char made in that state stores its
\* character at (row + 1, 1), marks the first row wrap-connected, clears overflow
\* and leaves the cursor on row + 1, behind the character.
C2_DeferredWrap ==
    [][(Returned("write_char")' /\ current_col = mode.width
            /\ current_row \in Viewport /\ current_row < scroll_area.bottom)
        => IF ~overflow
           THEN /\ overflow'
                /\ current_col' = mode.width
                /\ current_row' = current_row
                /\ apage'[current_row].chars[mode.width] = called'[2]
           ELSE /\ ~overflow'
                /\ current_row' = current_row + 1
                /\ current_col' = 2
                /\ apage'[current_row + 1].chars[1] = called'[2]
                /\ apage'[current_row].wrap]_vars

\* C2, reached: two rows joined by a wrap, the character in the last column of the
\* first and the next character in the first column of the second
C2_Witness ==
    /\ Returned("write_char")
    /\ current_row > scroll_area.top
    /\ current_col = 2
    /\ ~overflow
    /\ apage[current_row - 1].wrap
    /\ apage[current_row - 1].chars[mode.width] \in Chars
    /\ apage[current_row].chars[1] \in Chars

\* the scenario of C3: the 25 x 80 screen with the viewport on rows 1..24 and the
\* bottom bar on row 25, the cursor at (24, 80), write_char(c, do_scroll_down=False)
C3_Case ==
    /\ Returned("write_char")'
    /\ called'[3] = FALSE
    /\ mode = RealMode
    /\ bar_visible
    /\ scroll_area.top = 1
    /\ scroll_area.bottom = 24
    /\ current_row = 24
    /\ current_col = 80

\* the viewport rows have moved up by one row
C3_ScrolledUp == \A r \in 1..23 : apage'[r].chars = apage[r + 1].chars

\* C3 as stated: in the scenario, write_char scrolls row 1 out, shifts the text up
\* one row, and the cursor ends at row 24, column 1 with overflow false.
C3_AsStated ==
    [][C3_Case => /\ C3_ScrolledUp
                  /\ current_row' = 24
                  /\ current_col' = 1
                  /\ ~overflow']_vars

\* C3, amended: in the scenario, with overflow not set, write_char stores its
\* character at (24, 80) without scrolling and the cursor stays at row 24,
\* column 80 with overflow set; with overflow set before the call, it scrolls
\* row 1 out, shifts the text up one row, stores its character at (24, 1) and the
\* cursor ends at row 24, column 2 with overflow false.
C3_DeferredScroll ==
    [][C3_Case =>
        IF ~overflow
        THEN /\ \A r \in DOMAIN apage : r # 24 => apage'[r] = apage[r]
             /\ apage'[24].chars = [apage[24].chars EXCEPT ![80] = called'[2]]
             /\ current_row' = 24
             /\ current_col' = 80
             /\ overflow'
        ELSE /\ C3_ScrolledUp
             /\ apage'[24].chars[1] = called'[2]
             /\ current_row' = 24
             /\ current_col' = 2
             /\ ~overflow']_vars

\* C3, reached: the character is in the last column of row 24, nothing has
\* scrolled and the wrap is pending
C3_Witness ==
    /\ Returned("write_char")
    /\ mode = RealMode
    /\ current_row = 24
    /\ current_col = 80
    /\ overflow
    /\ apage[24].chars[80] \in Chars
    /\ \A r \in 1..24 : apage[r].chars[1] = RowMark(r)

\* C4: with the cursor at (scroll_area.bottom, mode.width), overflow set and
\* bottom_row_allowed false, write_char scrolls the viewport up by one row,
\* stores its character at (scroll_area.bottom, 1) and clears overflow, for every
\* viewport.
C4_WrapAtBottomScrolls ==
    [][(Returned("write_char")' /\ current_row = scroll_area.bottom
            /\ current_col = mode.width /\ overflow /\ ~bottom_row_allowed)
        => /\ ~overflow'
           /\ current_row' = scroll_area.bottom
           /\ apage'[scroll_area.bottom].chars[1] = called'[2]
           /\ \A r \in Viewport \ {scroll_area.bottom} :
                apage'[r].chars = apage[r + 1].chars]_vars

\* C5: locate_ with row equal to mode.height while the bottom bar is visible raises
\* and leaves current_row, current_col, overflow and bottom_row_allowed unchanged.
C5_LocateBarRow ==
    [][(Returned("locate_")' /\ bar_visible
            /\ OrElse(called'[2], current_row) = mode.height)
        => /\ raised'
           /\ UNCHANGED <<current_row, current_col, overflow, bottom_row_allowed>>]_vars

\* C5, reached: LOCATE to the bar's row has raised
C5_Witness ==
    /\ Returned("locate_")
    /\ called[2] = mode.height
    /\ called[3] \in 1..mode.width
    /\ bar_visible
    /\ raised

\* the row and column checks of C6
C6_RowBad(row) ==
    IF scroll_area.active THEN row \notin Viewport ELSE row \notin 1..mode.height

C6_ColBad(col) == col \notin 1..mode.width

ClaimMaxLine == IF tandytext /\ ~bar_visible THEN mode.height ELSE mode.height - 1

\* C7: view_print_(start, stop) with 1 <= start <= stop <= max_line sets the bounds
\* to (start, stop), marks the area active and moves the cursor to (start, 1) with
\* overflow false; view_print_ without arguments resets the bounds to
\* (1, height - 1) and active to false.
C7_ViewPrint ==
    [][Returned("view_print_")'
        => LET start == called'[2]
               stop == called'[3]
           IN  /\ (start = None /\ stop = None)
                    => /\ ~raised'
                       /\ scroll_area' = [top |-> 1, bottom |-> mode.height - 1,
                                          active |-> FALSE]
               /\ (1 <= start /\ start <= stop /\ stop <= ClaimMaxLine)
                    => /\ ~raised'
                       /\ scroll_area' = [top |-> start, bottom |-> stop, active |-> TRUE]
                       /\ current_row' = start
                       /\ current_col' = 1
                       /\ ~overflow']_vars

\* C7, reached: VIEW PRINT start, stop has set a viewport below row 1
C7_Witness ==
    /\ Returned("view_print_")
    /\ ~raised
    /\ called[2] > 1
    /\ scroll_area = [top |-> called[2], bottom |-> called[3], active |-> TRUE]
    /\ current_row = called[2]

\* C8: the scroll area bounds satisfy 1 <= top <= bottom <= height.
C8_ScrollAreaBounds ==
    /\ 1 <= scroll_area.top
    /\ scroll_area.top <= scroll_area.bottom
    /\ scroll_area.bottom <= mode.height

\* C8, reached: a viewport down to the last row is kept by a mode change
C8_Witness ==
    /\ Returned("init_mode")
    /\ scroll_area = [top |-> 1, bottom |-> mode.height, active |-> TRUE]

\* C9: view_print_ raises when stop < start or when start or stop is outside
\* [1, max_line], and then leaves the scroll area, the cursor and overflow
\* unchanged.
C9_ViewPrintRaises ==
    [][(Returned("view_print_")' /\ called'[2] # None
            /\ \/ called'[3] < called'[2]
               \/ called'[2] \notin 1..ClaimMaxLine
               \/ called'[3] \notin 1..ClaimMaxLine)
        => /\ raised'
           /\ UNCHANGED <<scroll_area, current_row, current_col, overflow>>]_vars

\* C9, reached: VIEW PRINT down to the last row has raised on a tandy with the
\* bottom bar visible
C9_Witness ==
    /\ Returned("view_print_")
    /\ raised
    /\ called[2] = 1
    /\ called[3] = mode.height
    /\ tandytext
    /\ bar_visible

\* C10: scroll(from_row), from_row defaulting to scroll_area.top, moves every row
\* of (from_row, bottom] up by one, clears row scroll_area.bottom with the current
\* attribute, leaves the rows outside [from_row, bottom] unchanged and decrements
\* current_row exactly when current_row > from_row; current_col and overflow are
\* unchanged.
C10_Scroll ==
    [][Returned("scroll")'
        => LET from == OrElse(called'[2], scroll_area.top)
               bottom == scroll_area.bottom
           IN  /\ \A r \in DOMAIN apage :
                    apage'[r] = IF from <= r /\ r < bottom THEN apage[r + 1]
                                ELSE IF r = bottom THEN TextRow(attr, mode.width)
                                ELSE apage[r]
               /\ current_row' = IF current_row > from THEN current_row - 1
                                 ELSE current_row
               /\ UNCHANGED <<current_col, overflow>>]_vars

\* C10, reached: a scroll from the viewport top has moved a written row and the
\* cursor up
C10_Witness ==
    /\ Returned("scroll")
    /\ current_row = scroll_area.top
    /\ current_col = 2
    /\ apage[current_row].chars[1] \in Chars
    /\ apage[current_row].length = 1

\* the calls of scroll_down made within the call just returned from
ScrollDowns(call) ==
    IF call = <<>> THEN {}
    ELSE IF call[1] = "write_char" THEN call[4]
    ELSE IF call[1] = "insert_fullchars" THEN call[3]
    ELSE IF call[1] = "line_feed" THEN call[2]
    ELSE {}

\* C11: scroll_down(from_row) moves every row of [from_row, bottom) down by one,
\* clears row from_row and increments current_row exactly when current_row >=
\* from_row; over every scroll_down called by write_char, insert_fullchars and
\* line_feed a cursor row within [scroll_area.top, scroll_area.bottom] stays
\* within it.
C11_ScrollDown ==
    [][/\ Returned("scroll_down")'
            => LET from == called'[2]
               IN  /\ \A r \in (from + 1)..scroll_area.bottom : apage'[r] = apage[r - 1]
                   /\ apage'[from].chars = [i \in 1..mode.width |-> " "]
                   /\ apage'[from].length = 0
                   /\ current_row' = IF current_row >= from THEN current_row + 1
                                     ELSE current_row
       /\ \A sd \in ScrollDowns(called') : sd[2] \in Viewport => sd[3] \in Viewport]_vars

\* C11, reached: a line feed at the end of a row has scrolled the rows below the
\* cursor down and the cursor has gone to the row made free
C11_Witness ==
    /\ Returned("line_feed")
    /\ \E sd \in called[2] : sd[1] = current_row /\ sd[2] = current_row - 1
    /\ current_row \in Viewport
    /\ current_row < scroll_area.bottom
    /\ apage[current_row].length = 0
    /\ apage[current_row + 1].length > 0

\* the page after scroll_down(from_row) is called on the screen that the scroll
\* just returned from has left
C12_Back == scroll_down(Self', OrElse(called'[2], scroll_area.top)).apage

\* C12 as stated: scroll(from_row) followed by scroll_down(from_row) restores the
\* characters of every row of the viewport, and the attributes of every row but
\* from_row.
C12_AsStated ==
    [][Returned("scroll")'
        => \A r \in Viewport :
            /\ C12_Back[r].chars = apage[r].chars
            /\ r # OrElse(called'[2], scroll_area.top) => C12_Back[r].attrs = apage[r].attrs]_vars

\* C12, amended: scroll(from_row) followed by scroll_down(from_row) restores
\* every row of the page other than from_row (characters, attributes, length and
\* wrap); row from_row itself is not restored: it is left blank, of length 0, in
\* the current attribute.
C12_RestoresBelow ==
    [][Returned("scroll")'
        => LET from == OrElse(called'[2], scroll_area.top)
           IN  /\ \A r \in DOMAIN apage : r # from => C12_Back[r] = apage[r]
               /\ C12_Back[from].chars = [i \in 1..mode.width |-> " "]
               /\ C12_Back[from].attrs = [i \in 1..mode.width |-> attr]
               /\ C12_Back[from].length = 0]_vars

\* C12, reached: a scroll from a row above the viewport bottom has taken a row of
\* text away, and the scroll_down from that row puts the text below it back
C12_Witness ==
    /\ Returned("scroll")
    /\ called[2] # None
    /\ called[2] < scroll_area.bottom
    /\ apage[called[2]].length > 0
    /\ scroll_down(Self, called[2]).apage[called[2] + 1] = apage[called[2]]
    /\ scroll_down(Self, called[2]).apage[called[2]].length = 0

\* insert_fullchars has just inserted one character at the cursor, in a row with
\* spare capacity
C13_Case == Returned("insert_fullchars")' /\ apage[current_row].length < mode.width

\* the page after the cursor is put back where the character was inserted and
\* delete_fullchar is called
C13_Back == delete_fullchar(set_pos(Self', current_row, current_col, FALSE)).apage

\* the row's characters and logical length are those before the insertion
C13_Restored ==
    /\ C13_Back[current_row].chars = apage[current_row].chars
    /\ C13_Back[current_row].length = apage[current_row].length

\* C13 as stated: for a row whose logical length is below mode.width, inserting
\* one character at (row, col) with insert_fullchars and then deleting at (row,
\* col) with delete_fullchar restores the row's characters and logical length,
\* whether or not the row is wrap-connected.
C13_AsStated == [][C13_Case => C13_Restored]_vars

\* C13, amended: the insertion followed by the deletion restores the row's
\* characters and logical length L when the row is not wrap-connected and
\* col <= L + 1, and when it is wrap-connected with col <= L and L + 1 below
\* mode.width; on a wrap-connected row with col = L + 1 below mode.width it does
\* not restore them.
C13_InsertDelete ==
    [][C13_Case
        => LET L == apage[current_row].length
               wrap == apage[current_row].wrap
           IN  /\ (~wrap /\ current_col <= L + 1) => C13_Restored
               /\ (wrap /\ current_col <= L /\ L + 1 < mode.width) => C13_Restored
               /\ (wrap /\ current_col = L + 1 /\ L + 1 < mode.width) => ~C13_Restored]_vars

\* C13, reached: a character was inserted before the text of a row that is not
\* wrap-connected, and deleting it gives the row's former text and length
C13_Witness ==
    /\ Returned("insert_fullchars")
    /\ current_col >= 2
    /\ ~apage[current_row].wrap
    /\ apage[current_row].chars[current_col - 1] \in InsertChars
    /\ apage[current_row].length > current_col - 1
    /\ LET back == delete_fullchar(set_pos(Self, current_row, current_col - 1, FALSE))
       IN  /\ back.apage[current_row].length = apage[current_row].length - 1
           /\ \A i \in 1..mode.width : back.apage[current_row].chars[i] \notin InsertChars

\* the operations that end in a call of check_pos
C14_EndInCheckPos ==
    {"init_mode", "write_char", "set_pos", "incr_pos", "decr_pos", "clear", "clear_view"}

\* C14: bottom_row_allowed becomes true only in a locate_ that succeeds and whose
\* row equals mode.height; a check_pos executed while current_row differs from
\* mode.height leaves it false; once false it stays false through every operation
\* until the next such locate_.
C14_OneShot ==
    [][/\ (~bottom_row_allowed /\ bottom_row_allowed')
            => /\ Returned("locate_")'
               /\ ~raised'
               /\ OrElse(called'[2], current_row) = mode.height
       /\ (called' # <<>> /\ called'[1] \in C14_EndInCheckPos)
            => (bottom_row_allowed' => current_row' = mode'.height)]_vars

\* the screen: cursor, overflow, flags, scroll area, bar, attribute and page
Screen == <<mode, tandytext, current_row, current_col, overflow, bottom_row_allowed,
            scroll_area, bar_visible, attr, apage>>

\* C15: with overflow set (the cursor is in column mode.width) pos_ returns 1 and
\* csrlin_ returns current_row + 1 if current_row < scroll_area.bottom and
\* current_row otherwise; with overflow not set they return current_col and
\* current_row; neither call changes the screen.
C15_CsrlinPos ==
    [][/\ Returned("csrlin_")'
            => /\ called'[2] = IF overflow /\ current_row < scroll_area.bottom
                               THEN current_row + 1 ELSE current_row
               /\ UNCHANGED Screen
       /\ Returned("pos_")'
            => /\ called'[2] = IF overflow THEN 1 ELSE current_col
               /\ UNCHANGED Screen
       /\ overflow => current_col = mode.width]_vars

\* C15, reached: with a wrap pending above the viewport bottom CSRLIN has
\* reported the next row
C15_Witness ==
    /\ Returned("csrlin_")
    /\ overflow
    /\ current_col = mode.width
    /\ current_row < scroll_area.bottom
    /\ called[2] = current_row + 1

\* the argument errors of screen_fn_ that C16 names: row, col, want_attr are the
\* arguments of the call
C16_Bad(row, col) ==
    \/ row \notin 0..mode.height
    \/ col \notin 0..mode.width
    \/ row = 0 /\ col = 0
    \/ scroll_area.active /\ (IF row = 0 THEN 1 ELSE row) \notin Viewport

\* the byte or attribute stored at the cell, attribute 0 in graphics modes
C16_Value(row, col, want_attr) ==
    LET r == IF row = 0 THEN 1 ELSE row
        c == IF col = 0 THEN 1 ELSE col
    IN  IF want_attr \in {None, 0} THEN Ord(apage[r].chars[c])
        ELSE IF mode.is_text_mode THEN apage[r].attrs[c] ELSE 0

\* C16 as stated: screen_fn_ raises when row is outside [0, mode.height], column
\* is outside [0, mode.width], row and column are both 0, or a viewport is active
\* and the row (0 read as 1) is outside it; otherwise it returns the byte or
\* attribute stored at the cell; in all cases the screen is unchanged.
C16_AsStated ==
    [][Returned("screen_fn_")'
        => /\ C16_Bad(called'[2], called'[3]) => raised'
           /\ ~C16_Bad(called'[2], called'[3])
                => /\ ~raised'
                   /\ called'[5] = C16_Value(called'[2], called'[3], called'[4])
           /\ UNCHANGED Screen]_vars

\* C16, amended: screen_fn_ raises when row is outside [0, mode.height], column
\* is outside [0, mode.width], row and column are both 0, a viewport is active
\* and the row (0 read as 1) is outside it, or want_attr is given and outside
\* [0, 255]; otherwise it returns the attribute stored at the cell when want_attr
\* is given and not 0 (0 in graphics modes) and the byte stored there when not;
\* in all cases the screen is unchanged.
C16_ScreenFn ==
    [][Returned("screen_fn_")'
        => LET bad == \/ C16_Bad(called'[2], called'[3])
                      \/ called'[4] # None /\ called'[4] \notin 0..255
           IN  /\ bad => raised'
               /\ ~bad => /\ ~raised'
                           /\ called'[5] = C16_Value(called'[2], called'[3], called'[4])
               /\ UNCHANGED Screen]_vars

\* C16, reached: SCREEN(row, 0) has returned the letter written in the first
\* column of a viewport row
C16_Witness ==
    /\ Returned("screen_fn_")
    /\ ~raised
    /\ scroll_area.active
    /\ called[2] \in Viewport
    /\ called[3] = 0
    /\ called[4] = None
    /\ called[5] = Ord(CellMark(called[2], 1))

\* C17 as stated: init_mode gives the bounds (1, new height) with active true
\* only if the viewport was set to the full screen, rows 1..height, before the
\* mode change; in every other case it gives (1, new height - 1) with active
\* false.
C17_AsStated ==
    [][Returned("init_mode")'
        => scroll_area' =
            IF scroll_area.active /\ scroll_area.top = 1
                    /\ scroll_area.bottom = mode.height
            THEN [top |-> 1, bottom |-> mode'.height, active |-> TRUE]
            ELSE [top |-> 1, bottom |-> mode'.height - 1, active |-> FALSE]]_vars

\* C17, amended: init_mode gives the bounds (1, new height) with active true
\* exactly when the bottom of the viewport before the mode change equals the new
\* mode's height, whatever its top; in every other case it gives
\* (1, new height - 1) with active false.
C17_InitMode ==
    [][Returned("init_mode")'
        => scroll_area' =
            IF scroll_area.bottom = mode'.height
            THEN [top |-> 1, bottom |-> mode'.height, active |-> TRUE]
            ELSE [top |-> 1, bottom |-> mode'.height - 1, active |-> FALSE]]_vars

\* C17, reached: after a mode change on a tandy the viewport covers the whole
\* screen and the cursor is at its top
C17_Witness ==
    /\ Returned("init_mode")
    /\ tandytext
    /\ scroll_area.active
    /\ scroll_area.top = 1
    /\ scroll_area.bottom = mode.height
    /\ current_row = 1
    /\ current_col = 1

\* the cells of the pixel page
Cells == {c \in (DOMAIN pixelpage.buffer) \X (0..(pixelpage.width - 1)) : TRUE}

\* C18: get_pixel(x, y) after put_pixel(x, y, v) inside the page returns
\* v & mask; put_pixel outside the page (negative coordinates included) leaves
\* every cell unchanged, and get_pixel outside the page returns 0.
C18_PutGet ==
    [][/\ Returned("put_pixel")' =>
            LET x == called'[2]
                y == called'[3]
                v == called'[4]
            IN  IF bm_in(pixelpage.buffer, y, x)
                THEN get_pixel(pixelpage', x, y) = BitAnd(v, pixelpage.mask)
                ELSE pixelpage' = pixelpage
        /\ Returned("get_pixel")' /\ ~bm_in(pixelpage.buffer, called'[3], called'[2])
            => called'[4] = 0]_vars

\* C19: every cell of the pixel page holds a value in [0, 2^bitsperpixel - 1]
\* after any of the drawing calls.
C19_InMask ==
    \A c \in Cells : pixelpage.buffer[c[1]][c[2]] \in 0..pixelpage.mask

\* C20: put_rect with XOR applied a second time to the same rectangle with the
\* same array restores the contents of the rectangle and leaves the cells
\* outside it as they were before the first.
C20_XorTwice ==
    [][Returned("put_rect")' /\ called'[4] = "XOR" =>
        LET r == called'[2]
            array == called'[3]
        IN  put_rect(pixelpage', r[1], r[2], r[3], r[4], array, "XOR").buffer
                = pixelpage.buffer]_vars

\* an XOR put_rect on part of the page has just changed a pixel
C20_Witness ==
    /\ Returned("put_rect")
    /\ called[4] = "XOR"
    /\ LET r == called[2]
           array == called[3]
       IN  /\ (r[3] - r[1] + 1) * (r[4] - r[2] + 1) < pixelpage.width * pixelpage.height
           /\ \E i \in DOMAIN array : \E j \in DOMAIN array[i] : array[i][j] # 0
           /\ \E c \in Cells : pixelpage.buffer[c[1]][c[2]] # 0
           /\ put_rect(pixelpage, r[1], r[2], r[3], r[4], array, "XOR").buffer
                # pixelpage.buffer

\* the value the claim gives a cell of the rectangle: d the cell before, s the
\* cell of the array
C21_Combined(token, mask, d, s) ==
    CASE token = "PSET" -> s
      [] token = "PRESET" -> BitXor(s, mask)
      [] token = "AND" -> BitAnd(d, s)
      [] token = "OR" -> BitOr(d, s)
      [] token = "XOR" -> BitXor(d, s)

\* C21: put_rect writes to each cell of the rectangle s for PSET, s XOR mask
\* for PRESET, d AND s, d OR s, d XOR s for AND, OR, XOR, where d is the cell
\* before and s the cell of the array; cells outside the rectangle are unchanged.
C21_PutRect ==
    [][Returned("put_rect")' =>
        LET r == called'[2]
            array == called'[3]
        IN  \A c \in Cells :
                LET y == c[1]
                    x == c[2]
                IN  pixelpage'.buffer[y][x] =
                        IF r[1] <= x /\ x <= r[3] /\ r[2] <= y /\ y <= r[4]
                        THEN C21_Combined(called'[4], pixelpage.mask,
                                          pixelpage.buffer[y][x], array[y - r[2]][x - r[1]])
                        ELSE pixelpage.buffer[y][x]]_vars

\* a PRESET put_rect of an array of differing attributes on part of a page of
\* two bits per pixel
C21_Witness ==
    /\ Returned("put_rect")
    /\ called[4] = "PRESET"
    /\ pixelpage.mask = 3
    /\ LET r == called[2]
           array == called[3]
       IN  /\ r[3] > r[1]
           /\ r[4] = r[2]
           /\ array[0][0] # array[0][1]
           /\ pixelpage.buffer[r[2]][r[1]] = BitXor(array[0][0], 3)
           /\ \E c \in Cells : c[1] # r[2] /\ pixelpage.buffer[c[1]][c[2]] # 0

\* insert_fullchars has just been called with a character that _insert_at
\* refused (it returned False)
C22_Refused ==
    /\ Returned("insert_fullchars")'
    /\ ~insert_at(Self, current_row, current_col, called'[2], attr).inserted

\* C22: when an insertion is refused because no room exists anywhere (the row
\* is full, the end of the line has reached scroll_area.bottom and its start is
\* at or above scroll_area.top), page contents, row lengths, wrap flags and the
\* cursor position are those before the insert_fullchars call.
C22_RefusedUnchanged ==
    [][/\ C22_Refused
       /\ row_length(Self, current_row) = mode.width
       /\ page_find_end_of_line(apage, current_row) >= scroll_area.bottom
       /\ page_find_start_of_line(apage, current_row) <= scroll_area.top
       => /\ apage' = apage
          /\ current_row' = current_row
          /\ current_col' = current_col]_vars

\* the rows whose first cell holds, after the step, the character that was the
\* last of the cursor's row before it
C23_PushedTo ==
    {q \in 2..mode.height :
        /\ apage'[q].length >= 1
        /\ apage'[q].chars[1] = apage[current_row].chars[mode.width]}

\* C23: whenever inserting into a full row pushes the row's last character into
\* the first column of the following row, the full row is wrap-connected to the
\* following row after the insertion, also when the full row is at
\* scroll_area.bottom and the viewport is scrolled up to make room.
C23_PushedWraps ==
    [][Returned("insert_fullchars")' /\ row_length(Self, current_row) = mode.width
        => \A q \in C23_PushedTo : apage'[q - 1].wrap]_vars

\* line_feed has just been called with the cursor inside the viewport and left
\* of the end of its row
C24_Case ==
    /\ Returned("line_feed")'
    /\ current_row \in Viewport
    /\ current_col < row_length(Self, current_row)

\* C24: line_feed with the cursor mid-line leaves the cursor at the same row
\* and column, ends with the cursor row wrap-connected and of logical length
\* current_col - 1, and places the characters that were at and after the cursor
\* at the start of the following row; also when the cursor row is
\* scroll_area.bottom.
C24_LineFeedMid ==
    [][C24_Case =>
        /\ current_row' = current_row
        /\ current_col' = current_col
        /\ apage'[current_row].wrap
        /\ apage'[current_row].length = current_col - 1
        /\ current_row + 1 \in DOMAIN apage
        /\ \A i \in 1..(apage[current_row].length - current_col + 1) :
                apage'[current_row + 1].chars[i] = apage[current_row].chars[current_col + i - 1]]_vars

\* line_feed has just been called with the cursor at or beyond the end of its row
C25_Case == Returned("line_feed")' /\ current_col >= row_length(Self, current_row)

\* the logical line of the cursor ends at or below the bottom of the viewport
C25_AtBottom == page_find_end_of_line(apage, current_row) >= scroll_area.bottom

\* the logical line of the cursor spans the viewport
C25_Spans ==
    C25_AtBottom /\ page_find_start_of_line(apage, current_row) <= scroll_area.top

\* the step opened an empty row below the cursor's row, which now wraps, and
\* put the cursor at its first column; the viewport went up by one row if the
\* line ended at its bottom, the rows below went down by one row if not
C25_Opened ==
    /\ current_col' = 1
    /\ current_row' \in Viewport
    /\ current_row' = IF C25_AtBottom THEN current_row ELSE current_row + 1
    /\ apage'[current_row'].length = 0
    /\ \A i \in 1..mode.width : apage'[current_row'].chars[i] = " "
    /\ apage'[current_row' - 1] = [apage[current_row] EXCEPT !.wrap = TRUE]
    /\ \A k \in Viewport :
         IF C25_AtBottom
         THEN /\ k < current_row - 1 => apage'[k] = apage[k + 1]
              /\ k > current_row => apage'[k] = apage[k]
         ELSE /\ k < current_row => apage'[k] = apage[k]
              /\ k > current_row + 1 => apage'[k] = apage[k - 1]

\* C25: line_feed with the cursor at end-of-line changes nothing when the
\* logical line already spans from scroll_area.top to scroll_area.bottom;
\* otherwise it opens an empty row directly below the cursor row (scrolling the
\* viewport up first when the line's end is at scroll_area.bottom), marks the
\* cursor row wrap-connected, and leaves the cursor at column 1 of the row
\* following it, inside the viewport.
C25_LineFeedEnd ==
    [][C25_Case =>
        IF C25_Spans
        THEN apage' = apage /\ current_row' = current_row /\ current_col' = current_col
        ELSE C25_Opened]_vars

\* delete_fullchar has just been called on a full, wrap-connected row that is
\* followed by a row with text
C26_Case ==
    /\ Returned("delete_fullchar")'
    /\ ~raised'
    /\ wraps(Self, current_row)
    /\ row_length(Self, current_row) = mode.width
    /\ current_row < mode.height
    /\ row_length(Self, current_row + 1) >= 1

\* C26: deleting at a column of a wrap-connected row of logical length
\* mode.width removes that cell, shifts the rest of the row left and fills the
\* last column with the first character (column 1) of the next row, which is
\* deleted from the next row in turn.
C26_Reflow ==
    [][C26_Case =>
        /\ \A i \in 1..mode.width :
                apage'[current_row].chars[i] =
                    IF i < current_col THEN apage[current_row].chars[i]
                    ELSE IF i < mode.width THEN apage[current_row].chars[i + 1]
                    ELSE apage[current_row + 1].chars[1]
        /\ \A r \in DOMAIN apage' : \A i \in 1..apage'[r].length :
                r > current_row => apage'[r].chars[i] # apage[current_row + 1].chars[1]]_vars

\* the calls of _insert_at and _delete_at made within the call just returned
\* from, each as <<method, row, depth>>
C27_Nested ==
    IF Returned("insert_fullchars") THEN called[4]
    ELSE IF Returned("delete_fullchar") THEN called[2]
    ELSE {}

\* C27: every delete_fullchar and insert_fullchars call ends with the recursion
\* of _delete_at and _insert_at bounded by the remaining rows of the screen: no
\* call addresses a row greater than mode.height (none ends in the text page's
\* IndexError for such a row) and the nesting depth never exceeds mode.height,
\* also with the cursor on row mode.height under bottom_row_allowed.
C27_Bounded ==
    /\ Returned("delete_fullchar") => ~raised
    /\ \A n \in C27_Nested : n[2] <= mode.height /\ n[3] <= mode.height

\* the row after check_pos has corrected the column of the position (r, c)
C28_CorrectedRow(r, c, ok) ==
    IF c > mode.width /\ (r < scroll_area.bottom \/ ok) THEN r + 1
    ELSE IF c < 1 /\ r > scroll_area.top THEN r - 1
    ELSE r

\* check_pos was called for row mode.height while writing on it is allowed
C28_BottomRow(r) == bottom_row_allowed /\ r = mode.height

\* C28 as stated: check_pos scrolls the viewport at most once per call, and
\* only when scroll_ok is true and the corrected row exceeds scroll_area.bottom;
\* with scroll_ok false it never changes page contents, a column beyond
\* mode.width on a row at or below scroll_area.bottom is clamped to mode.width,
\* and a row beyond scroll_area.bottom is clamped to scroll_area.bottom.
C28_AsStated ==
    [][Returned("check_pos")' =>
        LET r == called'[2]
            c == called'[3]
            ok == called'[4]
            n == called'[5]
        IN  /\ n <= 1
            /\ n = 1 => ok /\ C28_CorrectedRow(r, c, ok) > scroll_area.bottom
            /\ ~ok => /\ apage' = apage
                      /\ (c > mode.width /\ r >= scroll_area.bottom) => current_col' = mode.width
                      /\ r > scroll_area.bottom => current_row' = scroll_area.bottom]_vars

\* C28, amended: as stated, except that for row mode.height while
\* bottom_row_allowed is set check_pos never scrolls and leaves the row as it
\* is, clamping the column only.
C28_CheckPos ==
    [][Returned("check_pos")' =>
        LET r == called'[2]
            c == called'[3]
            ok == called'[4]
            n == called'[5]
        IN  /\ n <= 1
            /\ n = 1 => /\ ok
                        /\ ~C28_BottomRow(r)
                        /\ C28_CorrectedRow(r, c, ok) > scroll_area.bottom
            /\ ~ok => /\ apage' = apage
                      /\ (c > mode.width /\ r >= scroll_area.bottom) => current_col' = mode.width
                      /\ r > scroll_area.bottom =>
                            current_row' = IF C28_BottomRow(r) THEN mode.height
                                           ELSE scroll_area.bottom]_vars

\* C28, reached: check_pos without scroll_ok has clamped a position beyond the
\* last column of a row below the viewport to its bottom right corner, over a
\* viewport with text
C28_Witness ==
    /\ Returned("check_pos")
    /\ called[2] > scroll_area.bottom
    /\ called[3] > mode.width
    /\ ~called[4]
    /\ called[5] = 0
    /\ current_row = scroll_area.bottom
    /\ current_col = mode.width
    /\ \E k \in Viewport : apage[k].length > 0

\* cells in row-major order: the number of a cell, its row and its column
C29_Index(row, col) == (row - 1) * mode.width + col
C29_Row(k) == ((k - 1) \div mode.width) + 1
C29_Col(k) == ((k - 1) % mode.width) + 1
C29_Alnum(k) == page_get_char(apage, C29_Row(k), C29_Col(k)) \in ALPHANUMERIC

\* the cells the scan may read: from the cursor to the end of the bottom row of
\* the viewport, or of the cursor's own row when that is below the viewport
C29_Cells ==
    C29_Index(current_row, current_col) ..
        C29_Index(IF current_row > scroll_area.bottom THEN current_row
                  ELSE scroll_area.bottom, mode.width)

\* the first cell at or after k that is alphanumeric, or is not; 0 if none
C29_First(k, alnum) ==
    LET ks == {j \in C29_Cells : j >= k /\ C29_Alnum(j) = alnum}
    IN  IF ks = {} THEN 0 ELSE CHOOSE j \in ks : \A i \in ks : j <= i

\* the start of the next word: the first alphanumeric cell after the first
\* cell that is not; 0 if none
C29_NextWord ==
    LET gap == C29_First(C29_Index(current_row, current_col), FALSE)
    IN  IF gap = 0 THEN 0 ELSE C29_First(gap, TRUE)

\* C29: skip_word_right reads cells in row-major order from the cursor, going
\* from the last column to column 1 of the next row and no further than the end
\* of the bottom row of the viewport; it moves the cursor to the first
\* alphanumeric cell after the first non-alphanumeric one; if there is none
\* before the end of that row the cursor and overflow stay as they are; the
\* screen is never changed, and no more cells are read than lie ahead, one of
\* them twice.
C29_SkipWordRight ==
    [][Returned("skip_word_right")' =>
        /\ apage' = apage
        /\ scroll_area' = scroll_area
        /\ called'[2] <= Cardinality(C29_Cells) + 1
        /\ IF C29_NextWord = 0
           THEN /\ current_row' = current_row
                /\ current_col' = current_col
                /\ overflow' = overflow
           ELSE /\ current_row' = C29_Row(C29_NextWord)
                /\ current_col' = C29_Col(C29_NextWord)]_vars

\* C29, reached: skip_word_right has moved the cursor from a word on one row
\* over the blanks after it to a word on the next row, above the bottom of the
\* viewport, and no further
C29_Witness ==
    /\ Returned("skip_word_right")
    /\ current_row > scroll_area.top
    /\ current_row < scroll_area.bottom
    /\ current_col = 1
    /\ page_get_char(apage, current_row - 1, 1) \in ALPHANUMERIC
    /\ page_get_char(apage, current_row - 1, mode.width) \notin ALPHANUMERIC
    /\ page_get_char(apage, current_row, 1) \in ALPHANUMERIC
    /\ page_get_char(apage, current_row + 1, 2) \in ALPHANUMERIC
    /\ called[2] > mode.width

\* C29, reached: skip_word_right has read to the end of the bottom row of the
\* viewport without finding a word, with a word on the row below
C29_WitnessBottom ==
    /\ Returned("skip_word_right")
    /\ scroll_area.bottom < mode.height
    /\ current_row < scroll_area.bottom
    /\ page_get_char(apage, current_row, current_col) \in ALPHANUMERIC
    /\ page_get_char(apage, scroll_area.bottom + 1, 1) \in ALPHANUMERIC
    /\ called[2] > mode.width

\* the columns col .. col + len(s) - 1 of a write lie in 0 .. 79
C30_InRange(s, col) == col >= 0 /\ col + Len(s) - 1 <= BarWidth - 1

\* the bar has its 80 cells, each a character and a flag
C30_Cells ==
    /\ DOMAIN bar_contents = 0..(BarWidth - 1)
    /\ \A k \in DOMAIN bar_contents :
            Len(bar_contents[k]) = 2 /\ bar_contents[k][2] \in BOOLEAN

\* C30: the bar keeps exactly 80 cells after any sequence of clear, write and
\* update_bar calls, and a write whose columns col .. col + len(s) - 1 are not
\* all in 0 .. 79 changes no cell of the bar.
C30_WriteGuarded ==
    [][/\ C30_Cells'
       /\ (Returned("write")' /\ ~C30_InRange(called'[2], called'[3]))
            => bar_contents' = bar_contents]_vars

\* the part of C30 that the code keeps: 80 cells always; a write in range sets
\* its cells and no other and does not raise; a write out of range changes
\* cells of the bar only
C30_WriteInRange ==
    [][/\ C30_Cells'
       /\ Returned("write")' =>
            /\ UNCHANGED <<mode, current_row, current_col, overflow, scroll_area,
                           bar_visible, attr, apage>>
            /\ C30_InRange(called'[2], called'[3]) =>
                    /\ ~raised'
                    /\ \A k \in 0..(BarWidth - 1) :
                        LET i == k - called'[3]
                        IN  bar_contents'[k] =
                                IF i \in 0..(Len(called'[2]) - 1)
                                THEN <<called'[2][i + 1], called'[4]>>
                                ELSE bar_contents[k]]_vars

\* a write from the last cell on has changed that cell and raised
C30_Partial ==
    /\ Returned("write")
    /\ called[3] = BarWidth - 1
    /\ Len(called[2]) = 2
    /\ raised
    /\ bar_contents[BarWidth - 1] = <<called[2][1], called[4]>>

\* a write to column -1 has changed the last cell and returned
C30_Negative ==
    /\ Returned("write")
    /\ called[3] = -1
    /\ Len(called[2]) = 1
    /\ ~raised
    /\ bar_contents[BarWidth - 1] = <<called[2][1], called[4]>>

\* update_bar with ten descriptions of seven characters has raised
C30_UpdateRaised ==
    /\ Returned("update_bar")
    /\ Len(called[2]) = 10
    /\ raised

\* C31: in every reachable state, overflow being true implies that the cursor is
\* in column mode.width.
C31_OverflowLastColumn == overflow => current_col = mode.width

\* C31, reached: move_to_end on a full row has left the cursor in the last
\* column with overflow set
C31_Witness ==
    /\ Returned("move_to_end")
    /\ overflow
    /\ current_col = mode.width
    /\ apage[current_row].length = mode.width

\* overflow is set by write_char and move_to_end only, and every other
\* operation that changes the column clears it
C31_SetAndCleared ==
    [][/\ (overflow' /\ ~overflow) => (Returned("write_char")' \/ Returned("move_to_end")')
       /\ (current_col' # current_col /\ ~Returned("write_char")'
                /\ ~Returned("move_to_end")') => ~overflow']_vars

\* C32: in every state reached through show_bar, view_print_ and init_mode, the
\* bottom bar is not visible while the viewport includes the bottom row:
\* bar_visible implies scroll_area.bottom < mode.height.
C32_BarBelowViewport == bar_visible => scroll_area.bottom < mode.height

\* C32, reached: with the bar visible on a tandy, VIEW PRINT down to the bottom
\* row has raised and the viewport ends above the bar
C32_Witness ==
    /\ Returned("view_print_")
    /\ tandytext
    /\ bar_visible
    /\ called[3] = mode.height
    /\ raised
    /\ scroll_area.bottom = mode.height - 1

\* C32, reached: with the viewport down to the bottom row on a tandy, show_bar
\* has raised and the bar stays hidden
C32_WitnessShowBar ==
    /\ Returned("show_bar")
    /\ called[2]
    /\ raised
    /\ scroll_area.bottom = mode.height
    /\ ~bar_visible

\* the position checks of locate_ refuse the row or column of the call
C33_PositionRefused ==
    LET row == OrElse(called'[2], current_row)
        col == OrElse(called'[3], current_col)
    IN  \/ row = mode.height /\ bar_visible
        \/ C6_RowBad(row)
        \/ C6_ColBad(col)

\* C33: every locate_ call that raises, whichever argument is out of range,
\* leaves current_row, current_col, overflow and bottom_row_allowed as they
\* were before the call.
C33_RaiseUnchanged ==
    [][(Returned("locate_")' /\ raised')
        => UNCHANGED <<current_row, current_col, overflow, bottom_row_allowed>>]_vars

\* the part of C33 that the code keeps: a locate_ refused for its row or column
\* leaves the four fields as they were, and a locate_ that raises changes
\* nothing else of the screen
C33_PositionUnchanged ==
    [][(Returned("locate_")' /\ raised')
        => /\ C33_PositionRefused =>
                UNCHANGED <<current_row, current_col, overflow, bottom_row_allowed>>
           /\ UNCHANGED <<mode, scroll_area, bar_visible, attr, apage>>]_vars

\* a locate_ with a valid row and a bad cursor shape has raised after it moved
\* the cursor to the bottom row and allowed that row
C33_MovedThenRaised ==
    /\ Returned("locate_")
    /\ raised
    /\ called[2] = mode.height
    /\ current_row = mode.height
    /\ bottom_row_allowed

\* C34: a write_char made while bottom_row_allowed is set and the cursor is on
\* row mode.height leaves the flag set and the cursor on row mode.height with
\* its column in 1..mode.width, so that this holds for any number of
\* consecutive calls; it does not scroll the viewport, in either direction, and
\* changes no other row of the page.
C34_BottomRowWrites ==
    [][(Returned("write_char")' /\ bottom_row_allowed /\ current_row = mode.height)
        => /\ bottom_row_allowed'
           /\ current_row' = mode.height
           /\ current_col' \in 1..mode.width
           /\ called'[4] = {}
           /\ called'[5] = 0
           /\ scroll_area' = scroll_area
           /\ \A r \in 1..(mode.height - 1) : apage'[r] = apage[r]]_vars

\* C34, reached: two consecutive write_char calls on the bottom row, below a
\* viewport, have filled its last two cells and left the wrap pending there
C34_Witness ==
    /\ Returned("write_char")
    /\ bottom_row_allowed
    /\ scroll_area.bottom < mode.height
    /\ current_row = mode.height
    /\ current_col = mode.width
    /\ overflow
    /\ apage[mode.height].chars[mode.width - 1] = called[2]
    /\ apage[mode.height].chars[mode.width] = called[2]
    /\ ~apage[mode.height].wrap

\* a write_char on the bottom row with the wrap pending there has overwritten
\* the last cell and nothing else
C34_Overwrites ==
    [][(Returned("write_char")' /\ bottom_row_allowed /\ current_row = mode.height
            /\ overflow)
        => /\ overflow'
           /\ apage'[mode.height].wrap = apage[mode.height].wrap
           /\ \A c \in 1..(mode.width - 1) :
                apage'[mode.height].chars[c] = apage[mode.height].chars[c]
           /\ apage'[mode.height].chars[mode.width] = called'[2]]_vars

\* the next tab stop: the smallest column of the form 8k + 1 greater than the
\* cursor's
C35_Stop ==
    CHOOSE stop \in (current_col + 1)..(current_col + 8) :
        /\ stop % 8 = 1
        /\ \A other \in (current_col + 1)..(stop - 1) : other % 8 # 1

\* the cursor is where tab cannot go to the next row: on the bottom row of the
\* viewport, or on the last row of the screen below it
C35_LastRow ==
    \/ current_row = scroll_area.bottom
    \/ current_row = mode.height /\ bottom_row_allowed

\* C35: tab(overwrite = True) leaves the cursor on the next tab stop of its row,
\* or, when that stop lies beyond mode.width, in column 1 of the next row, or in
\* column mode.width of its row when it is on scroll_area.bottom; this for the
\* widths 20, 40 and 80; the call never scrolls.
C35_Tab ==
    [][(Returned("tab")' /\ called'[2])
        => /\ called'[3] = 0
           /\ apage' = apage
           /\ IF C35_Stop <= mode.width
              THEN current_row' = current_row /\ current_col' = C35_Stop
              ELSE IF C35_LastRow
              THEN current_row' = current_row /\ current_col' = mode.width
              ELSE current_row' = current_row + 1 /\ current_col' = 1]_vars

\* what the code does: as C35_Tab, except that a stop beyond mode.width leads
\* to column stop - mode.width of the next row, which is column 1 for the
\* widths 40 and 80 and column 5 for the width 20
C35_TabCode ==
    [][(Returned("tab")' /\ called'[2])
        => /\ called'[3] = 0
           /\ apage' = apage
           /\ ~overflow'
           /\ IF C35_Stop <= mode.width
              THEN current_row' = current_row /\ current_col' = C35_Stop
              ELSE IF C35_LastRow
              THEN current_row' = current_row /\ current_col' = mode.width
              ELSE /\ current_row' = current_row + 1
                   /\ current_col' = C35_Stop - mode.width
                   /\ current_col' = IF mode.width = 20 THEN 5 ELSE 1]_vars

\* tab from the last columns of a row of 20 has left the cursor in column 5 of
\* the next row
C35_ColumnFive ==
    /\ Returned("tab")
    /\ called[2]
    /\ mode.width = 20
    /\ current_row = 2
    /\ current_col = 5
====
